---- MODULE Spec2Model ----
(***************************************************************************)
(* A model of the mlive interpreter (an M / MUMPS dialect):                *)
(*   src/src/language/mValue.ts   runtime values and the sparse array      *)
(*   src/src/interpreter.ts       the tree-walking interpreter             *)
(*   src/src/evaluate.ts          the tokenize -> parse -> interpret chain *)
(*                                                                         *)
(* Runtime scalars are JavaScript strings or numbers.  A scalar is the     *)
(* record Num(n) or Str(s), so that 0, "0" and "" stay three values, as    *)
(* they are for `===`, `typeof` and truthiness in the source.  Numbers are *)
(* integers; the strings are the ones the scripts of the model can build.  *)
(***************************************************************************)
EXTENDS Integers, Sequences, FiniteSets, TLC

----------------------------------------------------------------------------
(* Scalars: src/src/language/mValue.ts                                      *)

Num(n) == [t |-> "n", n |-> n, s |-> ""]
Str(s) == [t |-> "s", n |-> 0, s |-> s]

IsObject(v) == v.t = "a"

\* JavaScript truthiness of a stored value: `!value` is true of "" and of 0,
\* and of no object.
IsFalsy(v) == v = Str("") \/ v = Num(0)

\* The numbers whose decimal spelling parseFloat is asked to read back.
NumDigits == 12

\* parseFloat(s) for the strings of the model: the decimal spelling of an
\* integer reads back as that integer, every other string ("", "a", ...) is
\* NaN, which mValueToNumber turns into 0.
ParseFloat(s) ==
    IF \E n \in (0 - NumDigits)..NumDigits : ToString(n) = s
    THEN CHOOSE n \in (0 - NumDigits)..NumDigits : ToString(n) = s
    ELSE 0

RECURSIVE mValueToNumber(_)
mValueToNumber(value) ==
    IF IsObject(value) THEN mValueToNumber(value.value)
    ELSE IF value.t = "s" THEN ParseFloat(value.s)
    ELSE value.n

RECURSIVE mValueToString(_)
mValueToString(value) ==
    IF IsObject(value) THEN mValueToString(value.value)
    ELSE IF value.t = "n" THEN ToString(value.n)
    ELSE value.s

mValueToScalar(value) == IF IsObject(value) THEN value.value ELSE value

----------------------------------------------------------------------------
(* The sparse array: src/src/language/mValue.ts                             *)

\* The subscript keys of the model in JavaScript's string order (UTF-16 code
\* units, character by character): "" first, digits before letters, and "10"
\* before "2".
KeyOrder == <<"", "0", "1", "10", "2", "3", "7", "a", "b">>

KeyRank(k) == CHOOSE i \in 1..Len(KeyOrder) : KeyOrder[i] = k

\* key1 < key2 on JavaScript strings.
StrLess(k1, k2) == KeyRank(k1) < KeyRank(k2)

\* An MArray object: { kind: Array, value, children? }.  hasChildren is
\* FALSE while the children property is undefined; a children list emptied
\* by mArrayKill stays present.
MArray(value, hasChildren, children) ==
    [t |-> "a", value |-> value, hasChildren |-> hasChildren, children |-> children]

NewArray(value) == MArray(value, FALSE, <<>>)

Pair(key, value) == [key |-> key, value |-> value]

\* The binary search of mArrayGetDesiredIndex, 0-based as in the source.
RECURSIVE DesiredIndexLoop(_, _, _, _)
DesiredIndexLoop(children, key, left, right) ==
    IF left < right
    THEN LET index == (left + right) \div 2
             pair == children[index + 1]
         IN  IF StrLess(key, pair.key) THEN DesiredIndexLoop(children, key, left, index)
             ELSE IF StrLess(pair.key, key) THEN DesiredIndexLoop(children, key, index + 1, right)
             ELSE index
    ELSE left

\* mArrayGetDesiredIndex that searches the lower half only.
mArrayGetDesiredIndexLow(array, key) ==
    IF ~array.hasChildren THEN 0
    ELSE DesiredIndexLoop(array.children, key, 0, Len(array.children) \div 2)

mArrayGetDesiredIndex(array, key) ==
    IF ~array.hasChildren THEN 0
    ELSE DesiredIndexLoop(array.children, key, 0, Len(array.children))

\* Array.prototype.splice(index, 0, item) and splice(index, 1), 0-based.
SpliceIn(seq, index, item) ==
    SubSeq(seq, 1, index) \o <<item>> \o SubSeq(seq, index + 1, Len(seq))

SpliceOut(seq, index) ==
    SubSeq(seq, 1, index) \o SubSeq(seq, index + 2, Len(seq))

\* mArraySet that puts a new pair at the end of the children.
mArraySetAtEnd(array, key, value) ==
    IF ~array.hasChildren
    THEN MArray(array.value, TRUE, <<Pair(key, value)>>)
    ELSE LET index == mArrayGetDesiredIndex(array, key)
         IN  IF index < Len(array.children) /\ array.children[index + 1].key = key
             THEN MArray(array.value, TRUE,
                         [array.children EXCEPT ![index + 1] = Pair(key, value)])
             ELSE MArray(array.value, TRUE, Append(array.children, Pair(key, value)))

mArraySet(array, key, value) ==
    IF ~array.hasChildren
    THEN MArray(array.value, TRUE, <<Pair(key, value)>>)
    ELSE LET index == mArrayGetDesiredIndex(array, key)
         IN  IF index < Len(array.children) /\ array.children[index + 1].key = key
             THEN MArray(array.value, TRUE,
                         [array.children EXCEPT ![index + 1] = Pair(key, value)])
             ELSE MArray(array.value, TRUE,
                         SpliceIn(array.children, index, Pair(key, value)))

mArrayKill(array, key) ==
    LET index == mArrayGetDesiredIndex(array, key)
    IN  IF array.hasChildren /\ index < Len(array.children)
           /\ array.children[index + 1].key = key
        THEN MArray(array.value, TRUE, SpliceOut(array.children, index))
        ELSE array

mArrayGet(array, key) ==
    LET index == mArrayGetDesiredIndex(array, key)
    IN  IF array.hasChildren /\ index < Len(array.children)
           /\ array.children[index + 1].key = key
        THEN array.children[index + 1].value
        ELSE Str("")

\* `array.children[index]?.key ?? ""` with `index` 0-based, negative included.
KeyAt(children, index) ==
    IF index >= 0 /\ index < Len(children) THEN children[index + 1].key ELSE ""

\* mArrayGetNextKey without the step over the key itself.
mArrayGetNextKeyAtIndex(array, key) ==
    IF ~array.hasChildren THEN ""
    ELSE KeyAt(array.children, mArrayGetDesiredIndex(array, key))

mArrayGetNextKey(array, key) ==
    LET index == mArrayGetDesiredIndex(array, key)
    IN  IF ~array.hasChildren \/ index >= Len(array.children) THEN ""
        ELSE LET index2 == IF array.children[index + 1].key = key
                           THEN index + 1 ELSE index
             IN  IF index2 < Len(array.children)
                 THEN array.children[index2 + 1].key ELSE ""

\* mArrayGetPreviousKey without the `- 1`.
mArrayGetPreviousKeyAtIndex(array, key) ==
    IF ~array.hasChildren THEN ""
    ELSE KeyAt(array.children, mArrayGetDesiredIndex(array, key))

mArrayGetPreviousKey(array, key) ==
    IF ~array.hasChildren THEN ""
    ELSE IF key = ""
    THEN KeyAt(array.children,
               IF Len(array.children) - 1 > 0 THEN Len(array.children) - 1 ELSE 0)
    ELSE KeyAt(array.children, mArrayGetDesiredIndex(array, key) - 1)

RECURSIVE mValueCopy(_)
RECURSIVE CopyChildren(_, _, _)
CopyChildren(copy, children, i) ==
    IF i > Len(children) THEN copy
    ELSE CopyChildren(mArraySet(copy, children[i].key, mValueCopy(children[i].value)),
                      children, i + 1)

mValueCopy(value) ==
    IF ~IsObject(value) THEN value
    ELSE IF value.hasChildren
         THEN CopyChildren(NewArray(value.value), value.children, 1)
         ELSE NewArray(value.value)

----------------------------------------------------------------------------
(* The AST: src/src/parser.ts (the node types the interpreter walks)        *)

NumberLiteral(n) == [kind |-> "NumberLiteral", num |-> n]
StringLiteral(s) == [kind |-> "StringLiteral", str |-> s]
Variable(name, subscripts) == [kind |-> "Variable", name |-> name, subscripts |-> subscripts]
CallNode(name, args) == [kind |-> "Call", name |-> name, args |-> args]
ReferenceArg(name) == [kind |-> "Reference", name |-> name]
UnaryOp(op, right) == [kind |-> "UnaryOp", op |-> op, right |-> right]
BinaryOp(op, left, right, isNegated) ==
    [kind |-> "BinaryOp", op |-> op, left |-> left, right |-> right, isNegated |-> isNegated]

NoExpr == [kind |-> "None"]

Command(condition, body) == [condition |-> condition, body |-> body]
Cmd(body) == Command(NoExpr, body)

CommentBody == [kind |-> "Comment"]
HaltBody == [kind |-> "Halt"]
WriteBody(args) == [kind |-> "Write", args |-> args]
HashFormatter == [kind |-> "HashFormatter"]
ExclamationPointFormatter == [kind |-> "ExclamationPointFormatter"]
QuitBody(returnValue) == [kind |-> "Quit", returnValue |-> returnValue]
DoBlockBody(children) == [kind |-> "DoBlock", children |-> children]
IfBody(conditions, children) == [kind |-> "If", conditions |-> conditions, children |-> children]
ElseBody(children) == [kind |-> "Else", children |-> children]
ForArg(variable, expressions) == [given |-> TRUE, variable |-> variable, expressions |-> expressions]
NoForArg == [given |-> FALSE, variable |-> NoExpr, expressions |-> <<>>]
ForBody(arg, children) == [kind |-> "For", arg |-> arg, children |-> children]
SetArg(target, value) == [target |-> target, value |-> value]
SetBody(args) == [kind |-> "Set", args |-> args]
NewBody(args) == [kind |-> "New", args |-> args]
KillBody(args) == [kind |-> "Kill", args |-> args]
\* MergeAstNode, as interpretMerge reads it: `m left=right`.
MergeBody(left, right) == [kind |-> "Merge", left |-> left, right |-> right]

\* A Tag record of TopLevelAstNode.tags: { index, params? }.
Tag(index, hasParams, params) == [index |-> index, hasParams |-> hasParams, params |-> params]

----------------------------------------------------------------------------
(* Interpreter state: src/src/interpreter.ts                                *)

\* The names a scope can bind: the variables and parameters of the model's
\* scripts, and the special variable $TEST, which lives in scope 0.
Names == {"a", "b", "p", "$TEST"}

Undefined == [t |-> "u"]
Hole == [t |-> "hole"]
ThrowMark == [t |-> "throw"]

\* MReference: { kind: Reference, environmentIndex, name }.
Reference(environmentIndex, name) ==
    [t |-> "r", environmentIndex |-> environmentIndex, name |-> name]

\* new Map(): an Environment with no binding.
NewMap == [t |-> "env", m |-> [n \in Names |-> Undefined]]

MapSet(env, name, value) == [env EXCEPT !.m[name] = value]

\* A TypeError thrown by the JavaScript runtime (a property read of
\* undefined) leaves interpret through every caller.
Throw(state) == [state EXCEPT !.abrupt = "Throw"]
OutOfFuel(state) == [state EXCEPT !.abrupt = "Fuel"]
Abrupt(state) == state.abrupt # ""

\* The result of a function that returns boolean: interpretExpression,
\* interpretCall, setVariable, ...
Ok(state) == [ok |-> TRUE, st |-> state]
Fail(state) == [ok |-> FALSE, st |-> state]

Push(state, value) == [state EXCEPT !.valueStack = Append(@, value)]
Top(state) == state.valueStack[Len(state.valueStack)]
Pop(state) == [state EXCEPT !.valueStack = SubSeq(@, 1, Len(@) - 1)]

\* array.length = n: truncates, or extends with empty slots.
RECURSIVE SetLength(_, _, _)
SetLength(seq, n, filler) ==
    IF Len(seq) > n THEN SubSeq(seq, 1, n)
    ELSE IF Len(seq) < n THEN SetLength(Append(seq, filler), n, filler)
    ELSE seq

reportError(message, state) == [state EXCEPT !.errors = Append(@, message)]

RECURSIVE ReferenceLoop(_, _, _)
ReferenceLoop(name, state, i) ==
    IF i < 0 THEN Reference(0, name)
    ELSE LET env == state.environmentStack[i + 1]
         IN  IF env.t = "hole" THEN ThrowMark
             ELSE LET variable == env.m[name]
                  IN  IF variable.t = "u" THEN ReferenceLoop(name, state, i - 1)
                      ELSE IF variable.t = "r" THEN variable
                      ELSE Reference(i, name)

getVariableReference(name, state) ==
    ReferenceLoop(name, state, Len(state.environmentStack) - 1)

\* state.environmentStack[reference.environmentIndex] is undefined when the
\* index is past the end or names an empty slot.
SlotMissing(reference, state) ==
    \/ reference.environmentIndex >= Len(state.environmentStack)
    \/ state.environmentStack[reference.environmentIndex + 1].t = "hole"

\* ThrowMark when the read throws, else the binding (Undefined when absent).
getReferenceValue(reference, state) ==
    IF SlotMissing(reference, state) THEN ThrowMark
    ELSE state.environmentStack[reference.environmentIndex + 1].m[reference.name]

setReferenceValue(reference, value, state) ==
    IF SlotMissing(reference, state) THEN Throw(state)
    ELSE [state EXCEPT !.environmentStack[reference.environmentIndex + 1] =
                            MapSet(@, reference.name, value)]

getSpecialVariable(name, state) == state.environmentStack[1].m[name]

setSpecialVariable(name, value, state) ==
    [state EXCEPT !.environmentStack[1] = MapSet(@, name, value)]

----------------------------------------------------------------------------
(* Variables: getSubscriptKey, getVariable, getOrCreateArrayAtSubscript,    *)
(* setVariable.                                                             *)
(*                                                                          *)
(* The source walks pointers to MArray objects and changes them in place.   *)
(* Here an object is named by the reference of its variable and the keys    *)
(* that lead to it, and a change rebuilds the variable's value along them.  *)
(*                                                                          *)
(* A function of the source that goes on after a call it makes is written   *)
(* as two operators, the second taking what the call returned.              *)

RECURSIVE GetAtPath(_, _)
GetAtPath(root, keys) ==
    IF keys = <<>> THEN root ELSE GetAtPath(mArrayGet(root, Head(keys)), Tail(keys))

RECURSIVE SetAtPath(_, _, _)
SetAtPath(root, keys, node) ==
    IF keys = <<>> THEN node
    ELSE mArraySet(root, Head(keys),
                   SetAtPath(mArrayGet(root, Head(keys)), Tail(keys), node))

\* A change made in place to the object that ref and keys name.
StoreAt(ref, keys, node, state) ==
    [state EXCEPT !.environmentStack[ref.environmentIndex + 1] =
                      MapSet(@, ref.name, SetAtPath(@.m[ref.name], keys, node))]

\* The optional subscriptValues parameter.
NoValues == [given |-> FALSE, vals |-> <<>>]
Values(vals) == [given |-> TRUE, vals |-> vals]

KeyResult(ok, key, state) == [ok |-> ok, key |-> key, st |-> state]

\* What getVariable returns: an MValue ("value"), null or undefined; ref and
\* keys name the object returned.
VarResult(r, v, ref, keys, state) ==
    [r |-> r, v |-> v, ref |-> ref, keys |-> keys, st |-> state]

ArrayResult(ok, ref, keys, state) == [ok |-> ok, ref |-> ref, keys |-> keys, st |-> state]

RECURSIVE interpretExpression(_, _)

\* getSubscriptKey after interpretExpression.  ok is FALSE when the source
\* returns undefined; the callers test `!subscriptKey`, also true of "".
SubscriptKeyOf(subscript) ==
    IF ~subscript.ok THEN KeyResult(FALSE, "", subscript.st)
    ELSE KeyResult(TRUE, mValueToString(Top(subscript.st)), Pop(subscript.st))

getSubscriptKey(node, state, i, subscriptValues) ==
    IF subscriptValues.given THEN KeyResult(TRUE, subscriptValues.vals[i + 1], state)
    ELSE SubscriptKeyOf(interpretExpression(node.subscripts[i + 1], state))

RECURSIVE GetVariableLoop(_, _, _, _, _, _, _, _)

\* One turn of the loop of getVariable after getSubscriptKey.
GetVariableAt(variable, k, value, i, subscriptCount, subscriptValues, ref, keys) ==
    IF ~k.ok \/ k.key = "" THEN VarResult("undefined", Undefined, ref, keys, k.st)
    ELSE IF IsFalsy(mArrayGet(value, k.key))
    THEN VarResult("null", Undefined, ref, keys, k.st)
    ELSE GetVariableLoop(variable, k.st, mArrayGet(value, k.key), i + 1, subscriptCount,
                         subscriptValues, ref, Append(keys, k.key))

GetVariableLoop(variable, state, value, i, subscriptCount, subscriptValues, ref, keys) ==
    IF i >= subscriptCount THEN VarResult("value", value, ref, keys, state)
    ELSE IF ~IsObject(value) THEN VarResult("null", Undefined, ref, keys, state)
    ELSE GetVariableAt(variable, getSubscriptKey(variable, state, i, subscriptValues),
                       value, i, subscriptCount, subscriptValues, ref, keys)

\* getVariable after getVariableReference and getReferenceValue.
GetVariableOf(variable, state, subscriptCount, subscriptValues, reference, value) ==
    IF reference.t = "throw" \/ value.t = "throw"
    THEN VarResult("undefined", Undefined, reference, <<>>, Throw(state))
    ELSE IF value.t = "u" \/ IsFalsy(value)
    THEN VarResult("null", Undefined, reference, <<>>, state)
    ELSE GetVariableLoop(variable, state, value, 0, subscriptCount,
                         subscriptValues, reference, <<>>)

\* getReferenceValue of what getVariableReference returned.
ValueOf(reference, state) ==
    IF reference.t = "throw" THEN ThrowMark ELSE getReferenceValue(reference, state)

getVariable(variable, state, subscriptCount, subscriptValues) ==
    GetVariableOf(variable, state, subscriptCount, subscriptValues,
                  getVariableReference(variable.name, state),
                  ValueOf(getVariableReference(variable.name, state), state))

\* The body of the loop of getOrCreateArrayAtSubscript after getSubscriptKey:
\* the state in which array[key] is an array.
EnsureArrayAt(ref, keys, key, state, array) ==
    IF ~IsObject(mArrayGet(array, key))
    THEN StoreAt(ref, keys, mArraySet(array, key, NewArray(mArrayGet(array, key))), state)
    ELSE state

RECURSIVE GetOrCreateLoop(_, _, _, _, _, _, _)

GetOrCreateAt(variable, k, i, subscriptCount, subscriptValues, ref, keys) ==
    IF ~k.ok \/ k.key = "" THEN ArrayResult(FALSE, ref, keys, k.st)
    ELSE GetOrCreateLoop(variable,
                         EnsureArrayAt(ref, keys, k.key, k.st,
                                       GetAtPath(getReferenceValue(ref, k.st), keys)),
                         i + 1, subscriptCount, subscriptValues, ref, Append(keys, k.key))

GetOrCreateLoop(variable, state, i, subscriptCount, subscriptValues, ref, keys) ==
    IF i >= subscriptCount THEN ArrayResult(TRUE, ref, keys, state)
    ELSE GetOrCreateAt(variable, getSubscriptKey(variable, state, i, subscriptValues),
                       i, subscriptCount, subscriptValues, ref, keys)

\* getOrCreateArrayAtSubscript after getVariableReference and
\* getReferenceValue.
GetOrCreateOf(variable, state, subscriptCount, subscriptValues, reference, array) ==
    IF reference.t = "throw" \/ array.t = "throw"
    THEN ArrayResult(FALSE, reference, <<>>, Throw(state))
    ELSE GetOrCreateLoop(variable,
                         IF array.t = "u" \/ IsFalsy(array)
                         THEN setReferenceValue(reference, NewArray(Str("")), state)
                         ELSE IF ~IsObject(array)
                         THEN setReferenceValue(reference, NewArray(array), state)
                         ELSE state,
                         0, subscriptCount, subscriptValues, reference, <<>>)

getOrCreateArrayAtSubscript(variable, state, subscriptCount, subscriptValues) ==
    GetOrCreateOf(variable, state, subscriptCount, subscriptValues,
                  getVariableReference(variable.name, state),
                  ValueOf(getVariableReference(variable.name, state), state))

\* setVariable of a variable without subscripts, after getVariableReference.
SetReferenceOf(reference, value, state) ==
    IF reference.t = "throw" \/ SlotMissing(reference, state) THEN Fail(Throw(state))
    ELSE Ok(setReferenceValue(reference, value, state))

\* setVariable after interpretExpression of the last subscript.
SetVariableAt(value, array, e) ==
    IF ~e.ok THEN Fail(e.st)
    ELSE Ok(StoreAt(array.ref, array.keys,
                    mArraySet(GetAtPath(getReferenceValue(array.ref, e.st), array.keys),
                              mValueToString(Top(e.st)), value),
                    Pop(e.st)))

\* setVariable after getOrCreateArrayAtSubscript.
SetVariableIn(variable, value, array) ==
    IF ~array.ok THEN Fail(array.st)
    ELSE SetVariableAt(value, array,
                       interpretExpression(variable.subscripts[Len(variable.subscripts)],
                                           array.st))

setVariable(variable, value, state) ==
    IF Len(variable.subscripts) = 0
    THEN SetReferenceOf(getVariableReference(variable.name, state), value, state)
    ELSE SetVariableIn(variable, value,
                       getOrCreateArrayAtSubscript(variable, state,
                                                   Len(variable.subscripts) - 1, NoValues))

\* interpretVariable after getVariable.
VariableValue(value) ==
    IF value.r = "undefined" THEN Fail(value.st)
    ELSE IF value.r = "null" THEN Ok(Push(value.st, Str("")))
    ELSE Ok(Push(value.st, mValueToScalar(value.v)))

interpretVariable(node, state) ==
    VariableValue(getVariable(node, state, Len(node.subscripts), NoValues))

----------------------------------------------------------------------------
(* The tags of the model's scripts: the flat command list that follows the  *)
(* commands of main, and the tag map (TopLevelAstNode.children and .tags).  *)
(* Indices are 0-based, as in the source.                                   *)

Var(name) == Variable(name, <<>>)

AstChildren == <<
    \* setp(p)  s p=7  q
    Cmd(SetBody(<<SetArg(Var("p"), NumberLiteral(7))>>)),
    Cmd(QuitBody(NoExpr)),
    \* pass(p)  d setp(.p)  q
    Cmd(CallNode("setp", <<ReferenceArg("p")>>)),
    Cmd(QuitBody(NoExpr)),
    \* deep(p)  n b  d pass(.p)  q
    Cmd(NewBody(<<"b">>)),
    Cmd(CallNode("pass", <<ReferenceArg("p")>>)),
    Cmd(QuitBody(NoExpr)),
    \* halts  h
    Cmd(HaltBody),
    \* clob(a)  q        two(p,a)  q
    Cmd(QuitBody(NoExpr)),
    \* leak()  f  q 5
    \*         q 7
    Cmd(ForBody(NoForArg, <<Cmd(QuitBody(NumberLiteral(5)))>>)),
    Cmd(QuitBody(NumberLiteral(7))),
    \* three()  q 3
    Cmd(QuitBody(NumberLiteral(3))),
    \* setz(p)  s p=0  q
    Cmd(SetBody(<<SetArg(Var("p"), NumberLiteral(0))>>)),
    Cmd(QuitBody(NoExpr)),
    \* mrg(p)  m p(1)=a  q
    Cmd(MergeBody(Variable("p", <<NumberLiteral(1)>>), Var("a"))),
    Cmd(QuitBody(NoExpr)),
    \* hash  w "h",#,"z"  q
    Cmd(WriteBody(<<StringLiteral("h"), HashFormatter, StringLiteral("z")>>)),
    Cmd(QuitBody(NoExpr)),
    \* drop(p)  k p  q
    Cmd(KillBody(<<Var("p")>>)),
    Cmd(QuitBody(NoExpr)),
    \* wipe  k
    Cmd(KillBody(<<>>))
>>

AstTags ==
    [n \in {"setp", "pass", "deep", "halts", "clob", "two", "leak", "three", "setz",
             "mrg", "hash", "drop",
             "wipe"} |->
        CASE n = "setp" -> Tag(0, TRUE, <<"p">>)
          [] n = "pass" -> Tag(2, TRUE, <<"p">>)
          [] n = "deep" -> Tag(4, TRUE, <<"p">>)
          [] n = "halts" -> Tag(7, FALSE, <<>>)
          [] n = "clob" -> Tag(8, TRUE, <<"a">>)
          [] n = "leak" -> Tag(9, TRUE, <<>>)
          [] n = "setz" -> Tag(12, TRUE, <<"p">>)
          [] n = "mrg" -> Tag(14, TRUE, <<"p">>)
          [] n = "hash" -> Tag(16, FALSE, <<>>)
          [] n = "drop" -> Tag(18, TRUE, <<"p">>)
          [] n = "wipe" -> Tag(20, FALSE, <<>>)
          [] n = "two" -> Tag(8, TRUE, <<"p", "a">>)
          [] n = "three" -> Tag(11, TRUE, <<>>)]

----------------------------------------------------------------------------
(* Expressions.  A `$$` call is an expression whose evaluation runs         *)
(* commands; the model's scripts use it as a whole argument of Write or     *)
(* value of Set, where the command layer below evaluates it.                *)

Bool(b) == Num(IF b THEN 1 ELSE 0)

\* interpretUnaryOp after interpretExpression of the operand.
UnaryValue(op, e) ==
    IF ~e.ok THEN Fail(e.st)
    ELSE CASE op = "Not" -> Ok(Push(Pop(e.st), Bool(mValueToNumber(Top(e.st)) = 0)))
           [] op = "Plus" -> Ok(Push(Pop(e.st), Num(mValueToNumber(Top(e.st)))))
           [] op = "Minus" -> Ok(Push(Pop(e.st), Num(0 - mValueToNumber(Top(e.st)))))
           [] OTHER -> Fail(reportError("Unimplemented unary op", Pop(e.st)))

interpretUnaryOp(node, state) == UnaryValue(node.op, interpretExpression(node.right, state))

\* The abstract relational comparison `left < right` of two scalars: of two
\* strings by code units, otherwise of their numeric values, where a string
\* that is no number is NaN and compares false.
IsNumeric(v) == v.t = "n" \/ v.s = "" \/ (\E n \in (0 - NumDigits)..NumDigits : ToString(n) = v.s)

JsLess(left, right) ==
    IF left.t = "s" /\ right.t = "s" THEN StrLess(left.s, right.s)
    ELSE IsNumeric(left) /\ IsNumeric(right) /\ mValueToNumber(left) < mValueToNumber(right)

\* `left / right` where it is an integer; the expressions of the model have
\* no other quotient.
Quotient(left, right) ==
    CHOOSE q \in (0 - left * left)..(left * left) : q * right = left

\* The operators of the model's scripts; IntegerDivide and Modulo are not
\* operators of the parser, and Concatenate leaves the strings of the model.
BinaryValue(op, left, right) ==
    CASE op = "Or" -> Bool(mValueToNumber(left) # 0 \/ mValueToNumber(right) # 0)
      [] op = "And" -> Bool(mValueToNumber(left) # 0 /\ mValueToNumber(right) # 0)
      [] op = "Equals" -> Bool(left = right)
      [] op = "LessThan" -> Bool(JsLess(left, right))
      [] op = "GreaterThan" -> Bool(JsLess(right, left))
      [] op = "Add" -> Num(mValueToNumber(left) + mValueToNumber(right))
      [] op = "Subtract" -> Num(mValueToNumber(left) - mValueToNumber(right))
      [] op = "Multiply" -> Num(mValueToNumber(left) * mValueToNumber(right))
      [] op = "Divide" -> Num(Quotient(mValueToNumber(left), mValueToNumber(right)))

\* `if (node.isNegated) value = value === 0 ? 1 : 0`.
Negated(isNegated, value) == IF isNegated THEN Bool(mValueToNumber(value) = 0) ELSE value

\* interpretBinaryOp after interpretExpression of both operands.
BinaryApply(node, r) ==
    IF ~r.ok THEN Fail(r.st)
    ELSE Ok(Push(Pop(Pop(r.st)),
                 Negated(node.isNegated,
                         BinaryValue(node.op, Top(Pop(r.st)), Top(r.st)))))

\* interpretBinaryOp after interpretExpression of the left operand.
BinaryRight(node, l) ==
    IF ~l.ok THEN Fail(l.st) ELSE BinaryApply(node, interpretExpression(node.right, l.st))

interpretBinaryOp(node, state) == BinaryRight(node, interpretExpression(node.left, state))

\* `$Order(arg)`, arg a variable.
OrderBuiltin(arg) == [kind |-> "OrderBuiltin", arg |-> arg]

\* interpretOrderBuiltin after interpretExpression of the last subscript.
OrderNext(value, e) ==
    IF ~e.ok THEN Fail(e.st)
    ELSE IF value.r = "null" \/ ~IsObject(value.v) THEN Ok(Push(Pop(e.st), Str("")))
    ELSE Ok(Push(Pop(e.st), Str(mArrayGetNextKey(value.v, mValueToString(Top(e.st))))))

\* interpretOrderBuiltin after getVariable(variable, state, lastSubscript).
OrderOf(node, value) ==
    IF value.r = "undefined" THEN Fail(value.st)
    ELSE OrderNext(value, interpretExpression(node.arg.subscripts[Len(node.arg.subscripts)],
                                              value.st))

interpretOrderBuiltin(node, state) ==
    IF Len(node.arg.subscripts) = 0 THEN Ok(Push(state, Str("")))
    ELSE OrderOf(node, getVariable(node.arg, state, Len(node.arg.subscripts) - 1, NoValues))

\* The switch of interpretExpression (of the $-builtins the scripts of the
\* model use $Order; AstNodeKind.Call is evaluated by CallStart and CallEnd).
interpretExpression(node, state) ==
    CASE node.kind = "Variable" -> interpretVariable(node, state)
      [] node.kind = "NumberLiteral" -> Ok(Push(state, Num(node.num)))
      [] node.kind = "StringLiteral" -> Ok(Push(state, Str(node.str)))
      [] node.kind = "UnaryOp" -> interpretUnaryOp(node, state)
      [] node.kind = "BinaryOp" -> interpretBinaryOp(node, state)
      [] node.kind = "OrderBuiltin" -> interpretOrderBuiltin(node, state)

----------------------------------------------------------------------------
(* The control stack.  The source runs commands by recursion: a handler     *)
(* that runs child commands (interpretDoBlock, interpretIf, interpretElse,  *)
(* the For handlers, interpretCall through interpretTopLevel) is suspended  *)
(* while they run.  A frame is one such suspended handler: its locals and   *)
(* the index of the child command it runs next.                             *)

NoFrames == <<>>

\* interpret, suspended in interpretTopLevel(state, index of main).  The
\* commands of main come first in the flat command list and the commands of
\* AstChildren follow them: i is -1 while the loop is in the commands of
\* main, and the 0-based index into AstChildren after that.
MainFrame == [kind |-> "main", i |-> -1]

\* interpretCall, suspended in interpretTopLevel(state, tag.index): i is the
\* 0-based index into AstChildren.  envAtCall is the environment stack the
\* caller had when the call started (an observation, not program state).
TagFrame(node, i, hasReturnValue, callEnvLength, callValueLength, startLength, envAtCall) ==
    [kind |-> "tag", node |-> node, i |-> i, hasReturnValue |-> hasReturnValue,
     callEnvironmentStackLength |-> callEnvLength,
     callValueStackLength |-> callValueLength,
     startValueStackLength |-> startLength,
     envAtCall |-> envAtCall]

\* interpretDoBlock, suspended in its loop over node.children (1-based i).
BlockFrame(children, startEnvironmentStackLength) ==
    [kind |-> "block", children |-> children, i |-> 1,
     startEnvironmentStackLength |-> startEnvironmentStackLength]

\* interpretChildCommands, called by interpretIf and interpretElse.
ChildrenFrame(children) == [kind |-> "children", children |-> children, i |-> 1]

\* One of the four For handlers, suspended in interpretChildCommands: form is
\* the number of expressions of the argument (0 for no argument), n is the
\* number of the turn of the loop that it is in.
ForFrame(form, variable, startValue, incrementValue, endValue, children) ==
    [kind |-> "for", form |-> form, variable |-> variable, startValue |-> startValue,
     incrementValue |-> incrementValue, endValue |-> endValue,
     children |-> children, i |-> 1, n |-> 1]

\* interpretWrite or interpretSet, suspended in the evaluation of its i-th
\* argument, which is a `$$` call.
ResumeFrame(what, node, i) == [kind |-> "resume", what |-> what, node |-> node, i |-> i]

\* What a handler did: its CommandResult ("Entered" when it is suspended in
\* child commands), the state, and the frames it is suspended in.
Outcome(result, state, push) == [result |-> result, st |-> state, push |-> push]

\* `return CommandResult.Halt` after a callee returned false; an exception
\* on its way out is no command result and stays what it is.
HaltOr(state) == Outcome(IF Abrupt(state) THEN "Abrupt" ELSE "Halt", state, NoFrames)

Continue(state) == Outcome("Continue", state, NoFrames)

----------------------------------------------------------------------------
(* Calls.                                                                   *)

Min(m, n) == IF m < n THEN m ELSE n

\* Set a binding in the scope on top of the stack, as the parameter binding
\* of interpretCall does: environmentStack[length - 1].set(name, value).
SetInTop(state, name, value) ==
    IF state.environmentStack[Len(state.environmentStack)].t = "hole" THEN Throw(state)
    ELSE [state EXCEPT !.environmentStack[Len(state.environmentStack)] =
                           MapSet(@, name, value)]

\* `if (!didPushEnvironment) state.environmentStack.push(new Map())`.
PushedOnce(state, didPushEnvironment) ==
    IF didPushEnvironment THEN state
    ELSE [state EXCEPT !.environmentStack = Append(@, NewMap)]

RECURSIVE BindArguments(_, _, _, _, _)

\* One turn of the first loop of interpretCall, after the argument's value
\* or reference was obtained.
BindArgument(node, tag, state, i, didPushEnvironment, argValue) ==
    IF argValue.t = "throw" THEN Fail(Throw(state))
    ELSE BindArguments(node, tag,
                       SetInTop(PushedOnce(state, didPushEnvironment),
                                tag.params[i + 1], argValue),
                       i + 1, TRUE)

\* The same turn after interpretExpression of an argument passed by value.
BindEvaluated(node, tag, i, didPushEnvironment, e) ==
    IF ~e.ok THEN Fail(e.st)
    ELSE BindArgument(node, tag, Pop(e.st), i, didPushEnvironment, Top(e.st))

\* The first loop of interpretCall: one argument per parameter.
BindArguments(node, tag, state, i, didPushEnvironment) ==
    IF Abrupt(state) THEN Fail(state)
    ELSE IF i >= Min(Len(tag.params), Len(node.args)) THEN Ok(state)
    ELSE IF node.args[i + 1].kind = "Reference"
    THEN BindArgument(node, tag, state, i, didPushEnvironment,
                      getVariableReference(node.args[i + 1].name, state))
    ELSE BindEvaluated(node, tag, i, didPushEnvironment,
                       interpretExpression(node.args[i + 1], state))

\* The second loop of interpretCall: the parameters no argument was given
\* for, set in whatever scope is on top of the stack.
RECURSIVE BindMissing(_, _, _)
BindMissing(tag, state, i) ==
    IF i >= Len(tag.params) \/ Abrupt(state) THEN state
    ELSE BindMissing(tag, SetInTop(state, tag.params[i + 1], Str("")), i + 1)

\* What interpretCall has done when it calls interpretTopLevel: ok is FALSE
\* when it has returned false or thrown before that.
Called(ok, state, frame) == [ok |-> ok, st |-> state, frame |-> frame]

\* interpretCall after both loops.
CallEnter(node, state, hasReturnValue, missing) ==
    Called(~Abrupt(missing), missing,
           TagFrame(node, AstTags[node.name].index, hasReturnValue,
                    Len(state.environmentStack), Len(missing.valueStack),
                    Len(state.valueStack), state.environmentStack))

\* interpretCall after the first loop.
CallBound(node, state, hasReturnValue, bound) ==
    IF ~bound.ok THEN Called(FALSE, bound.st, MainFrame)
    ELSE CallEnter(node, state, hasReturnValue,
                   IF AstTags[node.name].hasParams
                   THEN BindMissing(AstTags[node.name], bound.st, Len(node.args))
                   ELSE bound.st)

\* interpretCall up to its call of interpretTopLevel(state, tag.index).
CallStart(node, state, hasReturnValue) ==
    IF node.name \notin DOMAIN AstTags
    THEN Called(FALSE, reportError("Tag not found", state), MainFrame)
    ELSE CallBound(node, state, hasReturnValue,
                   IF AstTags[node.name].hasParams
                   THEN BindArguments(node, AstTags[node.name], state, 0, FALSE)
                   ELSE Ok(state))

\* The value stack of interpretCall after interpretTopLevel returned.
CallValues(frame, state) ==
    IF frame.hasReturnValue
    THEN IF Len(state.valueStack) = frame.callValueStackLength
         THEN Push(state, Str("")) ELSE state
    ELSE [state EXCEPT !.valueStack = SetLength(@, frame.callValueStackLength, Undefined)]

\* interpretCall without `state.environmentStack.length =
\* callEnvironmentStackLength`.
CallEndUnrestored(frame, state) == CallValues(frame, state)

\* interpretCall after interpretTopLevel returned, whatever it returned.
CallEnd(frame, state) ==
    [CallValues(frame, state) EXCEPT !.environmentStack =
         SetLength(@, frame.callEnvironmentStackLength, Hole)]

\* interpretCall returned `call.ok`: true is the call of interpretTopLevel,
\* in which the caller stays suspended in the frames `under`.
CallOutcome(call, under) ==
    IF call.ok THEN Outcome("Entered", call.st, Append(under, call.frame))
    ELSE HaltOr(call.st)

\* The command `do tag(args)`.
interpretCall(node, state) == CallOutcome(CallStart(node, state, FALSE), NoFrames)

\* An expression `$$tag(args)`, the argument i of a Write or the value of the
\* argument i of a Set.
interpretCallExpression(what, call, node, i, state) ==
    CallOutcome(CallStart(call, state, TRUE), <<ResumeFrame(what, node, i)>>)

----------------------------------------------------------------------------
(* Commands.  Each handler returns an Outcome; a handler that runs child    *)
(* commands returns "Entered" with the frame it is suspended in.            *)

\* CommandResult.Continue or Halt of a boolean result.
ContinueIf(r) == IF r.ok THEN Continue(r.st) ELSE HaltOr(r.st)

RECURSIVE WriteLoop(_, _, _)

\* interpretWrite after interpretExpression of its argument i.
WriteValue(node, i, e) ==
    IF ~e.ok THEN HaltOr(e.st)
    ELSE WriteLoop(node,
                   [Pop(e.st) EXCEPT !.output = Append(@, mValueToString(Top(e.st)))],
                   i + 1)

\* A `#` that leaves the output as it is.
OutputKept(state) == state

\* `state.output.length = 0`
OutputCleared(state) == [state EXCEPT !.output = <<>>]

WriteLoop(node, state, i) ==
    IF i > Len(node.args) THEN Continue(state)
    ELSE CASE node.args[i].kind = "HashFormatter" ->
                WriteLoop(node, OutputCleared(state), i + 1)
           [] node.args[i].kind = "ExclamationPointFormatter" ->
                WriteLoop(node, [state EXCEPT !.output = Append(@, "\n")], i + 1)
           [] node.args[i].kind = "Call" ->
                interpretCallExpression("Write", node.args[i], node, i, state)
           [] OTHER -> WriteValue(node, i, interpretExpression(node.args[i], state))

interpretWrite(node, state) == WriteLoop(node, state, 1)

\* interpretQuit after interpretExpression of the return value.
QuitValue(e) == IF ~e.ok THEN HaltOr(e.st) ELSE Outcome("Quit", e.st, NoFrames)

interpretQuit(node, state) ==
    IF node.returnValue.kind = "None" THEN Outcome("Quit", state, NoFrames)
    ELSE QuitValue(interpretExpression(node.returnValue, state))

interpretDoBlock(node, state) ==
    Outcome("Entered", state, <<BlockFrame(node.children, Len(state.environmentStack))>>)

interpretChildCommands(children, state) ==
    Outcome("Entered", state, <<ChildrenFrame(children)>>)

RECURSIVE IfLoop(_, _, _)

\* interpretIf after interpretExpression of its condition i.
IfCondition(node, i, e) ==
    IF ~e.ok THEN HaltOr(e.st)
    ELSE IF mValueToNumber(Top(e.st)) = 0
    THEN Continue(setSpecialVariable("$TEST", Num(0), Pop(e.st)))
    ELSE IfLoop(node, Pop(e.st), i + 1)

IfLoop(node, state, i) ==
    IF i > Len(node.conditions)
    THEN interpretChildCommands(node.children, setSpecialVariable("$TEST", Num(1), state))
    ELSE IfCondition(node, i, interpretExpression(node.conditions[i], state))

interpretIf(node, state) == IfLoop(node, state, 1)

\* The test of interpretElse: `test && mValueToNumber(test) !== 0`.
ElseSkips(test) == test.t # "u" /\ ~IsFalsy(test) /\ mValueToNumber(test) # 0

interpretElse(node, state) ==
    IF ElseSkips(getSpecialVariable("$TEST", state)) THEN Continue(state)
    ELSE interpretChildCommands(node.children, state)

\* The loops of the model run at most MaxIterations times; a loop that would
\* run longer is cut off and the run stops there (pc "cut").
MaxIterations == 6

interpretForWithNoArg(children, state) ==
    Outcome("Entered", state, <<ForFrame(0, NoExpr, 0, 0, 0, children)>>)

\* The loop condition of interpretForWithStartIncrementEnd.
ForIsPastEnd(incrementValue, variableValue, startValue, endValue) ==
    \/ incrementValue < 0 /\ variableValue < startValue
    \/ incrementValue > 0 /\ variableValue > endValue

\* The head of the loop of interpretForWithStartIncrementEnd after
\* interpretVariable: the children are run or the loop is left.
ForTest(frame, v) ==
    IF ~v.ok THEN HaltOr(v.st)
    ELSE IF ForIsPastEnd(frame.incrementValue, mValueToNumber(Top(v.st)),
                         frame.startValue, frame.endValue)
    THEN Continue(Pop(v.st))
    ELSE Outcome("Entered", Pop(v.st), <<frame>>)

ForHead(frame, state) == ForTest(frame, interpretVariable(frame.variable, state))

\* A For handler after setVariable(variable, startValue, state).
ForEnter(frame, set) ==
    IF ~set.ok THEN HaltOr(set.st)
    ELSE IF frame.form = 3 THEN ForHead(frame, set.st)
    ELSE Outcome("Entered", set.st, <<frame>>)

\* `!interpretExpression(start, state) || !interpretExpression(increment,
\* state) || ...`: the values are left on the stack.
RECURSIVE EvaluateAll(_, _, _)
EvaluateAll(expressions, e, i) ==
    IF ~e.ok \/ i > Len(expressions) THEN e
    ELSE EvaluateAll(expressions, interpretExpression(expressions[i], e.st), i + 1)

\* The state below the n values on top of the value stack.
PopAll(state, n) ==
    [state EXCEPT !.valueStack = SubSeq(@, 1, Len(@) - n)]

\* The value k places below the top of the value stack, as a number.
NumberAt(state, k) == mValueToNumber(state.valueStack[Len(state.valueStack) - k])

interpretForWithStartSet(variable, children, e) ==
    IF ~e.ok THEN HaltOr(e.st)
    ELSE ForEnter(ForFrame(1, variable, NumberAt(e.st, 0), 0, 0, children),
                  setVariable(variable, Num(NumberAt(e.st, 0)), PopAll(e.st, 1)))

interpretForWithStart(variable, start, children, state) ==
    interpretForWithStartSet(variable, children, EvaluateAll(<<start>>, Ok(state), 1))

interpretForWithStartIncrementSet(variable, children, e) ==
    IF ~e.ok THEN HaltOr(e.st)
    ELSE ForEnter(ForFrame(2, variable, NumberAt(e.st, 1), NumberAt(e.st, 0), 0, children),
                  setVariable(variable, Num(NumberAt(e.st, 1)), PopAll(e.st, 2)))

interpretForWithStartIncrement(variable, start, increment, children, state) ==
    interpretForWithStartIncrementSet(variable, children,
                                      EvaluateAll(<<start, increment>>, Ok(state), 1))

interpretForWithStartIncrementEndSet(variable, children, e) ==
    IF ~e.ok THEN HaltOr(e.st)
    ELSE ForEnter(ForFrame(3, variable, NumberAt(e.st, 2), NumberAt(e.st, 1),
                           NumberAt(e.st, 0), children),
                  setVariable(variable, Num(NumberAt(e.st, 2)), PopAll(e.st, 3)))

interpretForWithStartIncrementEnd(variable, start, increment, end, children, state) ==
    interpretForWithStartIncrementEndSet(variable, children,
                                         EvaluateAll(<<start, increment, end>>, Ok(state), 1))

interpretFor(node, state) ==
    IF ~node.arg.given THEN interpretForWithNoArg(node.children, state)
    ELSE CASE Len(node.arg.expressions) = 1 ->
                interpretForWithStart(node.arg.variable, node.arg.expressions[1],
                                      node.children, state)
           [] Len(node.arg.expressions) = 2 ->
                interpretForWithStartIncrement(node.arg.variable, node.arg.expressions[1],
                                               node.arg.expressions[2], node.children, state)
           [] Len(node.arg.expressions) = 3 ->
                interpretForWithStartIncrementEnd(node.arg.variable, node.arg.expressions[1],
                                                  node.arg.expressions[2],
                                                  node.arg.expressions[3],
                                                  node.children, state)
           [] OTHER ->
                Outcome("Halt",
                        reportError("Invalid number of expressions in for argument", state),
                        NoFrames)

\* The end of one iteration after interpretVariable: the variable is
\* incremented and set.
ForStepSet(variable, incrementValue, v) ==
    IF ~v.ok THEN Fail(v.st)
    ELSE setVariable(variable, Num(mValueToNumber(Top(v.st)) + incrementValue), Pop(v.st))

ForStep(variable, incrementValue, state) ==
    ForStepSet(variable, incrementValue, interpretVariable(variable, state))

\* A For handler after ForStep: the next turn of its loop.
ForAgain(frame, next) ==
    IF ~next.ok THEN HaltOr(next.st)
    ELSE IF frame.form = 2 THEN Outcome("Entered", next.st, <<frame>>)
    ELSE ForHead(frame, next.st)

\* A For handler after interpretChildCommands returned Continue.
ForNext(frame, state) ==
    IF frame.form = 1 THEN Continue(state)
    ELSE IF frame.n >= MaxIterations THEN Outcome("Abrupt", OutOfFuel(state), NoFrames)
    ELSE IF frame.form = 0
    THEN Outcome("Entered", state, <<[frame EXCEPT !.i = 1, !.n = @ + 1]>>)
    ELSE ForAgain([frame EXCEPT !.i = 1, !.n = @ + 1],
                  ForStep(frame.variable, frame.incrementValue, state))

\* interpretVariableSetArgument after interpretExpression of the value.
SetValue(node, e) ==
    IF ~e.ok THEN HaltOr(e.st)
    ELSE ContinueIf(setVariable(node.target, Top(e.st), Pop(e.st)))

\* A Set target of the model's scripts is a variable ($Extract as a target
\* is not part of them).
interpretVariableSetArgument(node, state) ==
    SetValue(node, interpretExpression(node.value, state))

RECURSIVE SetLoop(_, _, _)

\* interpretSet after its argument i.
SetNext(node, i, result) ==
    IF result.result # "Continue" THEN result ELSE SetLoop(node, result.st, i + 1)

SetLoop(node, state, i) ==
    IF i > Len(node.args) THEN Continue(state)
    ELSE IF node.args[i].value.kind = "Call"
    THEN interpretCallExpression("Set", node.args[i].value, node, i, state)
    ELSE SetNext(node, i, interpretVariableSetArgument(node.args[i], state))

interpretSet(node, state) == SetLoop(node, state, 1)

\* The scope that interpretNew pushes: each name bound to "".
NewEnvironment(args) ==
    [NewMap EXCEPT !.m = [n \in Names |->
        IF \E i \in 1..Len(args) : args[i] = n THEN Str("") ELSE Undefined]]

interpretNew(node, state) ==
    IF Len(node.args) = 0 THEN Continue(state)
    ELSE Continue([state EXCEPT !.environmentStack = Append(@, NewEnvironment(node.args))])

\* Kill of a name: the scopes from the top down until one held the name.
RECURSIVE KillNameLoop(_, _, _)
KillNameLoop(name, state, i) ==
    IF i < 0 THEN state
    ELSE IF state.environmentStack[i + 1].t = "hole" THEN Throw(state)
    ELSE IF state.environmentStack[i + 1].m[name].t # "u"
    THEN [state EXCEPT !.environmentStack[i + 1] = MapSet(@, name, Undefined)]
    ELSE KillNameLoop(name, state, i - 1)

RECURSIVE KillLoop(_, _, _)

\* Kill of a subscripted variable after interpretExpression of the last
\* subscript.
KillKey(node, i, value, e) ==
    IF ~e.ok THEN HaltOr(e.st)
    ELSE IF value.r = "null" \/ ~IsObject(value.v) THEN Continue(Pop(e.st))
    ELSE KillLoop(node,
                  StoreAt(value.ref, value.keys,
                          mArrayKill(value.v, mValueToString(Top(e.st))), Pop(e.st)),
                  i + 1)

\* Kill of a subscripted variable after getVariable up to the last subscript.
KillAt(node, i, value) ==
    IF value.r = "undefined" THEN HaltOr(value.st)
    ELSE KillKey(node, i, value,
                 interpretExpression(node.args[i].subscripts[Len(node.args[i].subscripts)],
                                     value.st))

\* Kill of a name after the loop over the scopes.
KillName(node, i, killed) ==
    IF Abrupt(killed) THEN HaltOr(killed) ELSE KillLoop(node, killed, i + 1)

KillLoop(node, state, i) ==
    IF i > Len(node.args) THEN Continue(state)
    ELSE IF Len(node.args[i].subscripts) > 0
    THEN KillAt(node, i,
                getVariable(node.args[i], state, Len(node.args[i].subscripts) - 1, NoValues))
    ELSE KillName(node, i,
                  KillNameLoop(node.args[i].name, state, Len(state.environmentStack) - 1))

interpretKill(node, state) ==
    IF Len(node.args) = 0
    THEN Continue([state EXCEPT !.environmentStack = <<NewMap>>])
    ELSE KillLoop(node, state, 1)

RECURSIVE SubscriptLoop(_, _, _, _)

\* interpretSubscripts after interpretExpression of subscript i.
SubscriptNext(expressions, i, values, e) ==
    IF ~e.ok THEN [ok |-> FALSE, vals |-> values, st |-> e.st]
    ELSE SubscriptLoop(expressions, Pop(e.st), i + 1,
                       Append(values, mValueToString(Top(e.st))))

SubscriptLoop(expressions, state, i, values) ==
    IF i > Len(expressions) THEN [ok |-> TRUE, vals |-> values, st |-> state]
    ELSE SubscriptNext(expressions, i, values, interpretExpression(expressions[i], state))

interpretSubscripts(expressions, state) == SubscriptLoop(expressions, state, 1, <<>>)

\* One list of keys begins the other.
SamePrefix(left, right) ==
    \A i \in 1..(IF Len(left) < Len(right) THEN Len(left) ELSE Len(right)) :
        left[i] = right[i]

\* doVariablesOverlap of interpretMerge: the same name, and the subscripts
\* equal as far as both have them.
doVariablesOverlap(node, leftSubscriptValues, rightSubscriptValues) ==
    /\ node.left.name = node.right.name
    /\ SamePrefix(leftSubscriptValues, rightSubscriptValues)

\* The destination is the source or lies below it: the source's pairs are
\* then read as the loop has left them.
IsBelow(destination, source) ==
    /\ destination.ref = source.ref
    /\ Len(source.keys) <= Len(destination.keys)
    /\ SubSeq(destination.keys, 1, Len(source.keys)) = source.keys

\* pair.value at turn i of the loop of interpretMerge.
PairValue(destination, source, state, i) ==
    IF IsBelow(destination, source)
    THEN mArrayGet(GetAtPath(getReferenceValue(source.ref, state), source.keys),
                   source.v.children[i].key)
    ELSE source.v.children[i].value

RECURSIVE MergeLoop(_, _, _, _)
\* `for (const pair of source.children) mArraySet(destination, ...)`
MergeLoop(destination, source, state, i) ==
    IF i > Len(source.v.children) THEN Continue(state)
    ELSE MergeLoop(destination, source,
                   StoreAt(destination.ref, destination.keys,
                           mArraySet(GetAtPath(getReferenceValue(destination.ref, state),
                                               destination.keys),
                                     source.v.children[i].key,
                                     mValueCopy(PairValue(destination, source, state, i))),
                           state),
                   i + 1)

\* interpretMerge after getVariable of the source.
MergeFrom(destination, source) ==
    IF source.r = "undefined" THEN HaltOr(source.st)
    ELSE IF source.r = "null" \/ ~IsObject(source.v) \/ ~source.v.hasChildren
    THEN Continue(source.st)
    ELSE MergeLoop(destination, source, source.st, 1)

\* interpretMerge after getOrCreateArrayAtSubscript of the destination.
MergeInto(node, right, destination) ==
    IF ~destination.ok THEN HaltOr(destination.st)
    ELSE MergeFrom(destination,
                   getVariable(node.right, destination.st, Len(right.vals),
                               Values(right.vals)))

\* interpretMerge after interpretSubscripts of the right side.
MergeRight(node, left, right) ==
    IF ~right.ok THEN HaltOr(right.st)
    ELSE IF doVariablesOverlap(node, left.vals, right.vals)
    THEN Outcome("Halt", reportError("Cannot merge overlapping variables", right.st),
                 NoFrames)
    ELSE MergeInto(node, right,
                   getOrCreateArrayAtSubscript(node.left, right.st, Len(left.vals),
                                               Values(left.vals)))

\* interpretMerge after interpretSubscripts of the left side.
MergeLeft(node, left) ==
    IF ~left.ok THEN HaltOr(left.st)
    ELSE MergeRight(node, left, interpretSubscripts(node.right.subscripts, left.st))

interpretMerge(node, state) ==
    MergeLeft(node, interpretSubscripts(node.left.subscripts, state))

\* The switch of interpretCommand.
CommandSwitch(node, state) ==
    CASE node.body.kind = "Comment" -> Continue(state)
      [] node.body.kind = "Write" -> interpretWrite(node.body, state)
      [] node.body.kind = "Quit" -> interpretQuit(node.body, state)
      [] node.body.kind = "DoBlock" -> interpretDoBlock(node.body, state)
      [] node.body.kind = "If" -> interpretIf(node.body, state)
      [] node.body.kind = "Else" -> interpretElse(node.body, state)
      [] node.body.kind = "For" -> interpretFor(node.body, state)
      [] node.body.kind = "Set" -> interpretSet(node.body, state)
      [] node.body.kind = "New" -> interpretNew(node.body, state)
      [] node.body.kind = "Kill" -> interpretKill(node.body, state)
      [] node.body.kind = "Merge" -> interpretMerge(node.body, state)
      [] node.body.kind = "Halt" -> Outcome("Halt", state, NoFrames)
      [] node.body.kind = "Call" -> interpretCall(node.body, state)
      [] OTHER -> Outcome("Halt", reportError("Unrecognized command", state), NoFrames)

\* The state in which interpretCommand reaches its switch: ok is FALSE when
\* it returns before, st.skip says that it returns Continue.
Conditioned(c) ==
    IF ~c.ok THEN [ok |-> FALSE, skip |-> FALSE, st |-> c.st]
    ELSE [ok |-> TRUE, skip |-> mValueToNumber(Top(c.st)) = 0, st |-> Pop(c.st)]

\* interpretCommand after the postcondition.
CommandAfter(node, c) ==
    IF ~c.ok THEN HaltOr(c.st)
    ELSE IF c.skip THEN Continue(c.st)
    ELSE CommandSwitch(node, c.st)

interpretCommand(node, state) ==
    CommandAfter(node,
                 IF node.condition.kind # "None"
                 THEN Conditioned(interpretExpression(node.condition, state))
                 ELSE [ok |-> TRUE, skip |-> FALSE, st |-> state])

----------------------------------------------------------------------------
(* What the suspended handlers do with the result of a child command.       *)

Settled(state, frames, pc, returned) ==
    [st |-> state, frames |-> frames, pc |-> pc, returned |-> returned]

NoReturn == <<>>

\* A child command returned Quit or Halt: the handlers suspended in `frames`
\* return, innermost first, until one of them turns the result into
\* Continue.  `returned` is the frame of an interpretCall that returned.
RECURSIVE Unwind(_, _, _)
RECURSIVE UnwindAbsorbed(_, _, _)
\* The same with interpretChildCommands turning Quit into Continue, so that
\* If and Else absorb the Quit of their children.
UnwindAbsorbed(result, state, frames) ==
    LET frame == frames[Len(frames)]
        rest == SubSeq(frames, 1, Len(frames) - 1)
    IN  CASE frame.kind = "main" -> Settled(state, frames, "done", NoReturn)
          [] frame.kind = "tag" -> Settled(CallEnd(frame, state), rest, "running", <<frame>>)
          [] frame.kind = "children" ->
                IF result = "Quit" THEN Settled(state, rest, "running", NoReturn)
                ELSE UnwindAbsorbed(result, state, rest)
          [] frame.kind = "block" ->
                IF result = "Quit"
                THEN Settled([state EXCEPT !.environmentStack =
                                  SetLength(@, frame.startEnvironmentStackLength, Hole)],
                             rest, "running", NoReturn)
                ELSE UnwindAbsorbed(result, state, rest)
          [] frame.kind = "for" ->
                IF result = "Quit" THEN Settled(state, rest, "running", NoReturn)
                ELSE UnwindAbsorbed(result, state, rest)

Unwind(result, state, frames) ==
    LET frame == frames[Len(frames)]
        rest == SubSeq(frames, 1, Len(frames) - 1)
    IN  CASE frame.kind = "main" ->
                \* interpretTopLevel breaks and interpret returns
                Settled(state, frames, "done", NoReturn)
          [] frame.kind = "tag" ->
                \* interpretTopLevel breaks; interpretCall ignores the result
                Settled(CallEnd(frame, state), rest, "running", <<frame>>)
          [] frame.kind = "children" ->
                \* interpretChildCommands returns the result to If or Else,
                \* which return it
                Unwind(result, state, rest)
          [] frame.kind = "block" ->
                IF result = "Quit"
                THEN Settled([state EXCEPT !.environmentStack =
                                  SetLength(@, frame.startEnvironmentStackLength, Hole)],
                             rest, "running", NoReturn)
                ELSE Unwind(result, state, rest)
          [] frame.kind = "for" ->
                IF result = "Quit" THEN Settled(state, rest, "running", NoReturn)
                ELSE Unwind(result, state, rest)

\* The result of a handler, given to the handlers suspended in `frames`.
Settle(outcome, frames) ==
    CASE outcome.result = "Continue" -> Settled(outcome.st, frames, "running", NoReturn)
      [] outcome.result = "Entered" ->
            Settled(outcome.st, frames \o outcome.push, "running", NoReturn)
      [] outcome.result = "Abrupt" ->
            Settled(outcome.st, frames,
                    IF outcome.st.abrupt = "Fuel" THEN "cut" ELSE "threw", NoReturn)
      [] OTHER -> Unwind(outcome.result, outcome.st, frames)

----------------------------------------------------------------------------
(* The run of a script.                                                     *)
(*                                                                          *)
(* The script is main followed by the tags of AstChildren.  The commands of *)
(* main are chosen as the run goes, any command of MainPool each time: the  *)
(* behaviours are the runs of every script whose main is a sequence of at   *)
(* most MaxCommands of these commands.                                      *)

VARIABLES valueStack, environmentStack, output, errors,
          frames, pc, steps, lastCmd, lastResult, returned,
          haltSeen, ranAfterHalt, lastIf, elseWrong, exprSkew, killClean, loopDone,
          merged, killedUnder, evaluator, tokenizeResult, parseResult, evaluateResult, ran

interpreterVars == <<valueStack, environmentStack, output, errors,
                     frames, steps, lastCmd, lastResult, returned,
                     haltSeen, ranAfterHalt, lastIf, elseWrong, exprSkew, killClean,
                     loopDone, merged, killedUnder>>

evaluateVars == <<evaluator, tokenizeResult, parseResult, evaluateResult, ran>>

\* The state of the runs of one part of the program alone (the array of
\* mValue.ts): array is the MArray and arrayOp the last operation on it.
VARIABLES array, arrayOp

arrayVars == <<array, arrayOp>>

\* The state of the runs of the parser from tokens: tokenizedLines is the Token[][]
\* that parse is given and parsed what it returned.
VARIABLES tokenizedLines, parsed

parserVars == <<tokenizedLines, parsed>>

\* The state of the page of src/ui/index.ts: isRunning and the text of the
\* run button; run counts the calls of evaluate and names the closure each
\* made; scheduled holds the runs whose onFrame is requested as an animation
\* frame callback; pageOutput holds the runs whose output is in the page's
\* `output` and outputTextArea what is shown, by run; uiEvent is the handler
\* that ran last.
VARIABLES isRunning, runButtonText, run, scheduled, pageOutput, outputTextArea, uiEvent

uiVars == <<isRunning, runButtonText, run, scheduled, pageOutput, outputTextArea, uiEvent>>

unitVars == <<arrayVars, parserVars, uiVars>>

vars == <<interpreterVars, pc, evaluateVars, unitVars>>

\* The number of commands of main.
MaxCommands == 2

Lit(n) == NumberLiteral(n)
WriteOf(e) == Cmd(WriteBody(<<e>>))
SetOf(target, value) == Cmd(SetBody(<<SetArg(target, value)>>))
ForOf(name, start, increment, end, children) ==
    Cmd(ForBody(ForArg(Var(name), <<Lit(start), Lit(increment), Lit(end)>>), children))
CallOf(name, args) == Cmd(CallNode(name, args))

\* f  s b=$O(a(b)) q:b=""  w b
OrderQuit == Command(BinaryOp("Equals", Var("b"), StringLiteral(""), FALSE), QuitBody(NoExpr))

OrderLoop ==
    Cmd(ForBody(NoForArg, <<SetOf(Var("b"), OrderBuiltin(Variable("a", <<Var("b")>>))),
                            OrderQuit,
                            WriteOf(Var("b"))>>))

MainPool == <<
    Cmd(CommentBody),
    Cmd(HaltBody),
    Cmd(QuitBody(NoExpr)),
    \* Set
    SetOf(Var("a"), Lit(0)),
    SetOf(Var("a"), Lit(3)),
    SetOf(Var("a"), StringLiteral("hi")),
    SetOf(Variable("a", <<Lit(1)>>), Lit(3)),
    SetOf(Variable("a", <<Lit(1), StringLiteral("b")>>), StringLiteral("hi")),
    SetOf(Variable("a", <<StringLiteral("")>>), Lit(3)),
    SetOf(Var("b"), Lit(2)),
    Cmd(SetBody(<<SetArg(Variable("a", <<Lit(2)>>), Lit(3)),
                  SetArg(Variable("a", <<Lit(10)>>), StringLiteral("hi"))>>)),
    \* Write
    WriteOf(Var("a")),
    WriteOf(Var("b")),
    WriteOf(Variable("a", <<Lit(1)>>)),
    WriteOf(Variable("a", <<StringLiteral("")>>)),
    WriteOf(Variable("a", <<Lit(1), StringLiteral("b")>>)),
    WriteOf(CallNode("leak", <<>>)),
    WriteOf(CallNode("three", <<>>)),
    WriteOf(CallNode("halts", <<>>)),
    Command(Var("a"), WriteBody(<<StringLiteral("c")>>)),
    Cmd(WriteBody(<<StringLiteral("x"), ExclamationPointFormatter, Lit(3)>>)),
    Cmd(WriteBody(<<StringLiteral("h"), HashFormatter, ExclamationPointFormatter,
                    StringLiteral("z")>>)),
    \* New, Kill
    Cmd(NewBody(<<"a">>)),
    Cmd(NewBody(<<>>)),
    Cmd(KillBody(<<>>)),
    Cmd(KillBody(<<Var("a")>>)),
    Cmd(KillBody(<<Variable("a", <<Lit(1)>>)>>)),
    Cmd(KillBody(<<Variable("b", <<Lit(1)>>), Var("a")>>)),
    \* If, Else
    Cmd(IfBody(<<Lit(1)>>, <<WriteOf(StringLiteral("t"))>>)),
    Cmd(IfBody(<<Lit(1), Lit(0), CallNode("nosuch", <<>>)>>, <<WriteOf(StringLiteral("t"))>>)),
    Cmd(IfBody(<<Var("a")>>, <<Cmd(HaltBody)>>)),
    Cmd(IfBody(<<Lit(1)>>, <<Cmd(KillBody(<<>>))>>)),
    Cmd(ElseBody(<<WriteOf(StringLiteral("e"))>>)),
    Cmd(ElseBody(<<Cmd(QuitBody(NoExpr))>>)),
    \* For
    ForOf("a", 1, 1, 3, <<WriteOf(Var("a"))>>),
    ForOf("a", 3, -1, 1, <<WriteOf(Var("a"))>>),
    ForOf("a", 1, 2, 4, <<WriteOf(Var("a"))>>),
    ForOf("a", 3, 1, 1, <<WriteOf(Var("a"))>>),
    ForOf("a", 1, -1, 3, <<WriteOf(Var("a"))>>),
    ForOf("b", 0, 1, 1, <<>>),
    ForOf("b", 7, 1, 8, <<Cmd(IfBody(<<Lit(1)>>, <<Cmd(QuitBody(NoExpr))>>))>>),
    ForOf("b", 1, 1, 2, <<Cmd(DoBlockBody(<<Cmd(QuitBody(NoExpr))>>)), WriteOf(Var("b"))>>),
    OrderLoop,
    \* Merge
    Cmd(MergeBody(Var("b"), Var("a"))),
    Cmd(MergeBody(Variable("a", <<Lit(1)>>), Var("a"))),
    Cmd(MergeBody(Variable("b", <<Lit(1)>>), Variable("a", <<Lit(1)>>))),
    \* Do blocks
    Cmd(DoBlockBody(<<Cmd(KillBody(<<>>))>>)),
    Cmd(DoBlockBody(<<Cmd(NewBody(<<"a">>)), SetOf(Var("a"), Lit(2)), Cmd(QuitBody(NoExpr)),
                      WriteOf(StringLiteral("n"))>>)),
    Cmd(DoBlockBody(<<Cmd(HaltBody)>>)),
    Cmd(DoBlockBody(<<Cmd(IfBody(<<Lit(1)>>, <<Cmd(QuitBody(NoExpr))>>)),
                      WriteOf(StringLiteral("n"))>>)),
    Cmd(DoBlockBody(<<Cmd(NewBody(<<"a">>)), SetOf(Var("a"), StringLiteral("hi")),
                      Cmd(KillBody(<<Var("a")>>)), Cmd(KillBody(<<Var("a")>>))>>)),
    \* Calls
    CallOf("setp", <<ReferenceArg("a")>>),
    CallOf("pass", <<ReferenceArg("a")>>),
    CallOf("deep", <<ReferenceArg("a")>>),
    CallOf("setz", <<ReferenceArg("a")>>),
    CallOf("setp", <<Var("a")>>),
    CallOf("setp", <<>>),
    CallOf("clob", <<>>),
    CallOf("two", <<Lit(1)>>),
    CallOf("two", <<Lit(2), Var("p")>>),
    CallOf("halts", <<>>),
    CallOf("mrg", <<ReferenceArg("a")>>),
    CallOf("hash", <<>>),
    CallOf("drop", <<ReferenceArg("a")>>),
    CallOf("wipe", <<>>),
    CallOf("nosuch", <<>>)
>>

\* The interpreter state of the source.
State ==
    [valueStack |-> valueStack, environmentStack |-> environmentStack,
     output |-> output, errors |-> errors, abrupt |-> ""]

\* The two evaluate functions of the repository.
Evaluators == {"src/evaluate.ts", "src/language/evaluate.ts"}

\* The errors of the tokenizer and of the parser, as their messages; a stage
\* reports at most MaxErrors of them.
MaxErrors == 2

Messages == {"Unexpected character", "Expected command name"}

ErrorLists == UNION {[1..n -> Messages] : n \in 0..MaxErrors}

\* What the stages return: tokenize `{ tokenizedLines, errors }`, parse
\* `{ ast, errors }` with ast standing for `ast !== undefined`.
StageResult(ast, stageErrors) == [ast |-> ast, errors |-> stageErrors]

NoStageResult == StageResult(FALSE, <<>>)

\* `{ output, errors }`, the result of evaluate.
EvaluateResult(text, resultErrors) ==
    [given |-> TRUE, output |-> text, errors |-> resultErrors]

NoEvaluateResult == [given |-> FALSE, output |-> "", errors |-> <<>>]

\* evaluate without its check of the tokenizer's errors.
TokenizeNeverFailed(r) == FALSE

\* `tokenizeResult.errors.length > 0`
TokenizeFailed(r) == Len(r.errors) > 0

\* `parseResult.errors.length > 0 || !parseResult.ast`
ParseFailed(r) == Len(r.errors) > 0 \/ ~r.ast

\* `state.output.join("")`
RECURSIVE Join(_)
Join(strings) ==
    IF strings = <<>> THEN "" ELSE Head(strings) \o Join(Tail(strings))

NoLoop == [done |-> FALSE, plain |-> FALSE, startValue |-> 0, incrementValue |-> 0,
           endValue |-> 0, count |-> 0]

\* interpretForWithStartIncrementEnd returned Continue from its loop
\* condition after `count` runs of the children; or a For returned Continue
\* because a child of its turn number `count` returned Quit (the values are
\* 0 then).
LoopDone(plain, startValue, incrementValue, endValue, count) ==
    [done |-> TRUE, plain |-> plain, startValue |-> startValue,
     incrementValue |-> incrementValue, endValue |-> endValue, count |-> count]

\* The children neither assign a variable nor Quit nor Halt of themselves.
IsPlain(children) ==
    \A i \in 1..Len(children) : children[i].body.kind \in {"Write", "Comment"}

IsLiteral(node) == node.kind \in {"NumberLiteral", "StringLiteral"}

LiteralValue(node) == IF node.kind = "NumberLiteral" THEN Num(node.num) ELSE Str(node.str)

\* The For command with three literal expressions that left its loop at once.
LoopSkipped(command) ==
    IF /\ command.condition.kind = "None"
       /\ command.body.arg.given
       /\ Len(command.body.arg.expressions) = 3
       /\ \A i \in 1..3 : command.body.arg.expressions[i].kind = "NumberLiteral"
    THEN LoopDone(IsPlain(command.body.children), command.body.arg.expressions[1].num,
                  command.body.arg.expressions[2].num, command.body.arg.expressions[3].num, 0)
    ELSE NoLoop

NoMerge == [done |-> FALSE, overlap |-> FALSE, refused |-> FALSE, changed |-> FALSE]

\* The stored node that a variable of a Merge names: the binding that its
\* name refers to, and the keys of its subscripts.
NodeOf(variable, state) ==
    [ref |-> getVariableReference(variable.name, state),
     keys |-> interpretSubscripts(variable.subscripts, state).vals]

\* The two variables name the same stored node, or one names a node above
\* the other's.
Overlapping(node, state) ==
    /\ NodeOf(node.left, state).ref.t # "throw"
    /\ NodeOf(node.left, state).ref = NodeOf(node.right, state).ref
    /\ SamePrefix(NodeOf(node.left, state).keys, NodeOf(node.right, state).keys)

\* interpretMerge returned Halt and its error is the last one reported.
Refused(state, outcome) ==
    /\ outcome.result = "Halt"
    /\ Len(outcome.st.errors) = Len(state.errors) + 1
    /\ outcome.st.errors[Len(outcome.st.errors)] = "Cannot merge overlapping variables"

MergeDone(node, state, outcome) ==
    [done |-> TRUE, overlap |-> Overlapping(node, state), refused |-> Refused(state, outcome),
     changed |-> outcome.st.environmentStack # state.environmentStack]

\* evaluate: the state it starts from; the interpreter state is the one
\* interpret starts from, in interpretTopLevel.
\*   evaluator            which of the two evaluate functions runs
\*   ran                  the stages that have run
\*   loopDone             the loop that the last step left by its condition
\*   lastCmd, lastResult  the command that ran last and what it returned
\*   returned             the frame of the interpretCall that just returned
\*   haltSeen             a command has returned Halt
\*   ranAfterHalt         a command was started after that
\*   lastIf               how the most recent If ended: "true" when all its
\*                        conditions were true, "false" when one was false
\*   elseWrong            an Else ran its children after an If that ended
\*                        "true", or skipped them otherwise
\*   exprSkew             a `$$` call returned true and left the value stack
\*                        other than one deeper than it was when it started
\*   killClean            no command has made a binding since the last Kill
\*                        without arguments
\*   merged               the Merge that the last step ran: whether its
\*                        two variables named the same stored node or one
\*                        a node above the other, whether it returned Halt
\*                        with the error of overlapping variables, and
\*                        whether it changed a variable
\*   killedUnder          how many of the suspended handlers, from the
\*                        outermost, a Kill without arguments has run
\*                        inside of
\* parse has not run.
NoParseResult == [hasAst |-> FALSE, ast |-> [kind |-> "None"], errors |-> <<>>]

NoOp == [op |-> "none", key |-> "", value |-> Str("")]

Op(op, key, value) == [op |-> op, key |-> key, value |-> value]

\* No part of the program has run alone.
NoEvent == [kind |-> "load", run |-> 0, invoked |-> FALSE]

\* The page as it is loaded.
IdleUi ==
    /\ isRunning = FALSE
    /\ runButtonText = "Run"
    /\ run = 0
    /\ scheduled = {}
    /\ pageOutput = {}
    /\ outputTextArea = {}
    /\ uiEvent = NoEvent

IdleUnits ==
    /\ array = NewArray(Str(""))
    /\ arrayOp = NoOp
    /\ tokenizedLines = <<>>
    /\ parsed = NoParseResult
    /\ IdleUi

\* What interpret and evaluate start from.
Fresh ==
    /\ valueStack = <<>>
    /\ environmentStack = <<NewMap>>
    /\ output = <<>>
    /\ errors = <<>>
    /\ frames = <<MainFrame>>
    /\ tokenizeResult = NoStageResult
    /\ parseResult = NoStageResult
    /\ evaluateResult = NoEvaluateResult
    /\ ran = <<>>
    /\ loopDone = NoLoop
    /\ steps = 0
    /\ lastCmd = Cmd(CommentBody)
    /\ lastResult = "none"
    /\ returned = NoReturn
    /\ haltSeen = FALSE
    /\ ranAfterHalt = FALSE
    /\ lastIf = "none"
    /\ elseWrong = FALSE
    /\ exprSkew = FALSE
    /\ killClean = FALSE
    /\ merged = NoMerge
    /\ killedUnder = 0

Init ==
    /\ pc = "evaluate"
    /\ evaluator \in Evaluators
    /\ Fresh
    /\ IdleUnits

Frame == frames[Len(frames)]

Callers == SubSeq(frames, 1, Len(frames) - 1)

InMain == Frame.kind = "main" /\ Frame.i = -1

\* The loop the top frame is suspended in has a next command.
HasNext ==
    CASE Frame.kind = "main" -> Frame.i < Len(AstChildren)
      [] Frame.kind = "tag" -> Frame.i < Len(AstChildren)
      [] Frame.kind = "resume" -> FALSE
      [] OTHER -> Frame.i <= Len(Frame.children)

\* The next command: 0 stands for the one the top frame points at, k > 0 for
\* MainPool[k] as the next command of main.
CommandChoices ==
    IF InMain THEN IF steps < MaxCommands THEN 1..Len(MainPool) ELSE {}
    ELSE IF HasNext THEN {0} ELSE {}

CommandAt(k) ==
    IF k > 0 THEN MainPool[k]
    ELSE IF Frame.kind \in {"main", "tag"} THEN AstChildren[Frame.i + 1]
    ELSE Frame.children[Frame.i]

\* The loop of the top frame moves to its next command.
Advanced ==
    IF InMain THEN frames ELSE [frames EXCEPT ![Len(frames)].i = @ + 1]

SkewOf(settled) ==
    /\ settled.returned # NoReturn
    /\ settled.returned[1].hasReturnValue
    /\ Len(settled.st.valueStack) # settled.returned[1].startValueStackLength + 1

\* The state after a handler returned `outcome` and the suspended handlers
\* have `settled` it.
Became(outcome, settled) ==
    /\ valueStack' = settled.st.valueStack
    /\ environmentStack' = settled.st.environmentStack
    /\ output' = settled.st.output
    /\ errors' = settled.st.errors
    /\ frames' = settled.frames
    /\ pc' = settled.pc
    /\ returned' = settled.returned
    /\ haltSeen' = (haltSeen \/ outcome.result = "Halt")
    /\ exprSkew' = (exprSkew \/ SkewOf(settled))
    /\ UNCHANGED <<evaluateVars, unitVars>>

\* The state after a handler returned `outcome` to the frames `under` it.
Becomes(outcome, under) == Became(outcome, Settle(outcome, under))

\* One turn of a command loop (interpretTopLevel, interpretChildCommands,
\* interpretDoBlock): interpretCommand on `command`.
Ran(command, kind, outcome) ==
    /\ Becomes(outcome, Advanced)
    /\ steps' = IF InMain THEN steps + 1 ELSE steps
    /\ lastCmd' = command
    /\ lastResult' = outcome.result
    /\ ranAfterHalt' = (ranAfterHalt \/ haltSeen)
    /\ lastIf' = IF kind = "If" /\ outcome.result = "Entered" THEN "true"
                 ELSE IF kind = "If" /\ outcome.result = "Continue" THEN "false"
                 ELSE lastIf
    /\ elseWrong' = (elseWrong \/ (/\ kind = "Else"
                                   /\ outcome.result \in {"Entered", "Continue"}
                                   /\ (outcome.result = "Entered") = (lastIf = "true")))
    /\ killClean' = IF kind = "Kill" /\ Len(command.body.args) = 0 THEN TRUE
                    ELSE IF kind \in {"Set", "New", "For", "Call"} THEN FALSE
                    ELSE IF kind = "Write" /\ outcome.result = "Entered" THEN FALSE
                    ELSE killClean
    /\ merged' = IF kind = "Merge" THEN MergeDone(command.body, State, outcome) ELSE NoMerge
    /\ killedUnder' = IF /\ kind = "Kill"
                          /\ Len(command.body.args) = 0
                          /\ command.condition.kind = "None"
                       THEN Len(frames)
                       ELSE Min(killedUnder, Len(frames'))
    /\ loopDone' = IF kind = "For" /\ outcome.result = "Continue" THEN LoopSkipped(command)
                   ELSE IF outcome.result = "Quit" /\ Frame.kind = "for"
                   THEN LoopDone(FALSE, 0, 0, 0, Frame.n)
                   ELSE NoLoop

Run(command) == Ran(command, command.body.kind, interpretCommand(command, State))

\* The next command is of the given kind and runs.
Step(kind) ==
    \E k \in CommandChoices :
        /\ CommandAt(k).body.kind = kind
        /\ Run(CommandAt(k))

StepComment == pc = "running" /\ Step("Comment")
StepWrite == pc = "running" /\ Step("Write")
StepQuit == pc = "running" /\ Step("Quit")
StepDoBlock == pc = "running" /\ Step("DoBlock")
StepIf == pc = "running" /\ Step("If")
StepElse == pc = "running" /\ Step("Else")
StepFor == pc = "running" /\ Step("For")
StepSet == pc = "running" /\ Step("Set")
StepNew == pc = "running" /\ Step("New")
StepKill == pc = "running" /\ Step("Kill")
StepHalt == pc = "running" /\ Step("Halt")
StepCall == pc = "running" /\ Step("Call")
StepMerge == pc = "running" /\ Step("Merge")

\* A step that is the end of a loop or the rest of a handler, not a command.
After(outcome, under, loop) ==
    /\ Becomes(outcome, under)
    /\ lastResult' = "End"
    /\ loopDone' = loop
    /\ merged' = NoMerge
    /\ killedUnder' = Min(killedUnder, Len(frames'))
    /\ UNCHANGED <<steps, lastCmd, ranAfterHalt, lastIf, elseWrong, killClean>>

\* The commands of main are over: the loop of interpretTopLevel goes on with
\* the commands that follow them.
EndMain ==
    /\ pc = "running"
    /\ InMain
    /\ After(Continue(State), [frames EXCEPT ![Len(frames)].i = 0], NoLoop)

\* The loop of interpretTopLevel is at the end of the command list.
EndTopLevel ==
    /\ pc = "running"
    /\ Frame.kind \in {"main", "tag"}
    /\ ~InMain
    /\ ~HasNext
    /\ After(Outcome("Quit", State, NoFrames), frames, NoLoop)

\* interpretChildCommands, called by If or Else, is through the children.
EndChildren ==
    /\ pc = "running"
    /\ Frame.kind = "children"
    /\ ~HasNext
    /\ After(Continue(State), Callers, NoLoop)

\* interpretDoBlock is through the children.
EndDoBlock ==
    /\ pc = "running"
    /\ Frame.kind = "block"
    /\ ~HasNext
    /\ After(Outcome("Quit", State, NoFrames), frames, NoLoop)

\* A For handler after its children: it goes round again or returns.
ForLeft(outcome) ==
    After(outcome, Callers,
          IF Frame.form = 3 /\ outcome.result = "Continue"
          THEN LoopDone(IsPlain(Frame.children), Frame.startValue, Frame.incrementValue,
                        Frame.endValue, Frame.n)
          ELSE NoLoop)

\* interpretChildCommands, called by a For handler, is through the children.
EndFor ==
    /\ pc = "running"
    /\ Frame.kind = "for"
    /\ ~HasNext
    /\ ForLeft(ForNext(Frame, State))

\* The rest of a Write or Set from the value that the `$$` call left on the
\* value stack.
Resumed(outcome) ==
    /\ Becomes(outcome, Callers)
    /\ lastResult' = outcome.result
    /\ lastCmd' = Cmd(Frame.node)
    /\ merged' = NoMerge
    /\ killedUnder' = Min(killedUnder, Len(frames'))
    /\ UNCHANGED <<steps, ranAfterHalt, lastIf, elseWrong, killClean, loopDone>>

\* The `$$` call that a Write or a Set is suspended in has returned true.
Resume ==
    /\ pc = "running"
    /\ Frame.kind = "resume"
    /\ Resumed(IF Frame.what = "Write"
               THEN WriteValue(Frame.node, Frame.i, Ok(State))
               ELSE SetNext(Frame.node, Frame.i, SetValue(Frame.node.args[Frame.i], Ok(State))))

\* evaluate: `tokenize(input)`.
Tokenize ==
    /\ pc = "evaluate"
    /\ \E stageErrors \in ErrorLists : tokenizeResult' = StageResult(FALSE, stageErrors)
    /\ ran' = Append(ran, "tokenize")
    /\ pc' = "tokenized"
    /\ UNCHANGED <<unitVars, interpreterVars, evaluator, parseResult, evaluateResult>>

\* src/evaluate.ts: the tokenizer reported errors and evaluate returns them.
ReturnTokenizeErrors ==
    /\ pc = "tokenized"
    /\ evaluator = "src/evaluate.ts"
    /\ TokenizeFailed(tokenizeResult)
    /\ evaluateResult' = EvaluateResult("", tokenizeResult.errors)
    /\ pc' = "returned"
    /\ UNCHANGED <<unitVars, interpreterVars, evaluator, tokenizeResult, parseResult, ran>>

\* src/language/evaluate.ts: the tokenizer reported errors and parseScript
\* returns them with no ast.
ParseScriptErrors ==
    /\ pc = "tokenized"
    /\ evaluator = "src/language/evaluate.ts"
    /\ TokenizeFailed(tokenizeResult)
    /\ parseResult' = StageResult(FALSE, tokenizeResult.errors)
    /\ pc' = "parsed"
    /\ UNCHANGED <<unitVars, interpreterVars, evaluator, tokenizeResult, evaluateResult, ran>>

\* `parse(input, tokenizeResult.tokenizedLines)`.
Parse ==
    /\ pc = "tokenized"
    /\ ~TokenizeFailed(tokenizeResult)
    /\ \E stageErrors \in ErrorLists, ast \in BOOLEAN :
            parseResult' = StageResult(ast, stageErrors)
    /\ ran' = Append(ran, "parse")
    /\ pc' = "parsed"
    /\ UNCHANGED <<unitVars, interpreterVars, evaluator, tokenizeResult, evaluateResult>>

\* The parse result has errors or no ast and evaluate returns its errors.
ReturnParseErrors ==
    /\ pc = "parsed"
    /\ ParseFailed(parseResult)
    /\ evaluateResult' = EvaluateResult("", parseResult.errors)
    /\ pc' = "returned"
    /\ UNCHANGED <<unitVars, interpreterVars, evaluator, tokenizeResult, parseResult, ran>>

\* `interpret(parseResult.ast, externs)` begins.
Interpret ==
    /\ pc = "parsed"
    /\ ~ParseFailed(parseResult)
    /\ ran' = Append(ran, "interpret")
    /\ pc' = "running"
    /\ UNCHANGED <<unitVars, interpreterVars, evaluator, tokenizeResult, parseResult, evaluateResult>>

\* interpret returns `{ output: state.output.join(""), errors: state.errors }`
\* and evaluate returns it.
Return ==
    /\ pc = "done"
    /\ evaluateResult' = EvaluateResult(Join(output), errors)
    /\ pc' = "returned"
    /\ UNCHANGED <<unitVars, interpreterVars, evaluator, tokenizeResult, parseResult, ran>>

Next ==
    \/ Tokenize \/ ReturnTokenizeErrors \/ ParseScriptErrors \/ Parse
    \/ ReturnParseErrors \/ Interpret \/ Return
    \/ StepComment \/ StepWrite \/ StepQuit \/ StepDoBlock \/ StepIf \/ StepElse
    \/ StepFor \/ StepSet \/ StepNew \/ StepKill \/ StepHalt \/ StepCall \/ StepMerge
    \/ EndMain \/ EndTopLevel \/ EndChildren \/ EndDoBlock \/ EndFor \/ Resume

Spec == Init /\ [][Next]_vars

----------------------------------------------------------------------------
(* The properties of the runs.                                              *)

\* The value that reading `variable` pushes when the scopes are `environment`,
\* or the mark of what went wrong.
ReadIn(variable, environment) ==
    LET r == interpretVariable(variable, [State EXCEPT !.environmentStack = environment])
    IN  IF r.ok THEN Top(r.st)
        ELSE IF r.st.abrupt # "" THEN ThrowMark
        ELSE [t |-> "halt"]

Read(variable) == ReadIn(variable, environmentStack)

\* Reading `variable` does what interpretVariable does when it finds a value:
\* it pushes one value and changes nothing else.
ReadsCleanly(variable) ==
    LET r == interpretVariable(variable, State)
    IN  /\ r.ok
        /\ r.st = Push(State, Top(r.st))

\* C1: once a command has returned Halt, no later command is run, at any
\* nesting depth.
C1_HaltStopsEverything == ~ranAfterHalt

\* The command that ran last was Set with one argument, a literal value and
\* literal subscripts, and it returned Continue.
LiteralSetRan ==
    /\ pc = "running"
    /\ lastResult = "Continue"
    /\ lastCmd.condition.kind = "None"
    /\ lastCmd.body.kind = "Set"
    /\ Len(lastCmd.body.args) = 1
    /\ IsLiteral(lastCmd.body.args[1].value)
    /\ \A i \in 1..Len(lastCmd.body.args[1].target.subscripts) :
           IsLiteral(lastCmd.body.args[1].target.subscripts[i])

\* C2: after Set p=v has run, reading p gives v, for every path p and every
\* scalar v.
C2_SetThenReadGivesValue ==
    LiteralSetRan =>
        Read(lastCmd.body.args[1].target) = LiteralValue(lastCmd.body.args[1].value)

ReadPaths == <<
    Var("a"),
    Var("b"),
    Var("p"),
    Variable("a", <<Lit(1)>>),
    Variable("a", <<StringLiteral("")>>),
    Variable("a", <<Lit(1), StringLiteral("b")>>),
    Variable("b", <<Var("a")>>)
>>

\* C3: reading a variable never reports an error and never stops the run; it
\* pushes a value, the empty string when there is none to find.
C3_ReadNeverFails ==
    pc = "running" => \A i \in 1..Len(ReadPaths) : ReadsCleanly(ReadPaths[i])

\* The command that ran last was Kill without arguments.
KillAllRan ==
    /\ pc = "running"
    /\ lastResult = "Continue"
    /\ lastCmd.condition.kind = "None"
    /\ lastCmd.body.kind = "Kill"
    /\ Len(lastCmd.body.args) = 0

\* C4: after Kill without arguments, wherever it ran, the environment stack
\* is one empty global scope, the run goes on, and every variable reads as
\* the empty string until it is set again.
C4_KillAllResets ==
    /\ KillAllRan => environmentStack = <<NewMap>>
    /\ (pc = "running" /\ killClean) =>
           \A n \in Names \ {"$TEST"} : Read(Var(n)) = Str("")

\* C5: Else runs its children exactly when the most recent If met a false
\* condition or there was no If, whatever ran in between; an If that meets a
\* false condition leaves $TEST 0.
C5_ElseFollowsLastIf ==
    /\ ~elseWrong
    /\ (/\ pc = "running"
        /\ lastCmd.body.kind = "If"
        /\ lastCmd.condition.kind = "None"
        /\ lastResult = "Continue")
       => getSpecialVariable("$TEST", State) = Num(0)

\* The number of values start, start+inc, ... that are not past `end` in the
\* direction of inc.
RECURSIVE ExpectedFrom(_, _, _, _)
ExpectedFrom(value, incrementValue, endValue, count) ==
    IF \/ incrementValue > 0 /\ value > endValue
       \/ incrementValue < 0 /\ value < endValue
       \/ count >= MaxIterations
    THEN count
    ELSE ExpectedFrom(value + incrementValue, incrementValue, endValue, count + 1)

ExpectedRuns(startValue, incrementValue, endValue) ==
    ExpectedFrom(startValue, incrementValue, endValue, 0)

\* C6: For v=start:inc:end runs its children once for each value that is not
\* past end in the direction of inc, and not at all when start is past end.
C6_ForRunsOncePerValue ==
    (loopDone.done /\ loopDone.plain /\ loopDone.incrementValue # 0) =>
        loopDone.count = ExpectedRuns(loopDone.startValue, loopDone.incrementValue,
                                      loopDone.endValue)

\* The tags that set their parameter, and the value they set it to.
Setters == {"setp", "pass", "deep", "setz"}

SetterValue(name) == IF name = "setz" THEN Num(0) ELSE Num(7)

\* The call of a tag with one parameter and one argument has just returned.
SetterReturned ==
    /\ pc = "running"
    /\ returned # NoReturn
    /\ returned[1].node.name \in Setters
    /\ Len(returned[1].node.args) = 1

\* C7: an argument passed by reference is an alias of the caller's variable,
\* at any depth of calls that pass it on; an argument passed by value leaves
\* the caller's variable as it was.
C7_ReferenceAliasesCaller ==
    SetterReturned =>
        IF returned[1].node.args[1].kind = "Reference"
        THEN Read(Var(returned[1].node.args[1].name)) = SetterValue(returned[1].node.name)
        ELSE returned[1].node.args[1].kind = "Variable" =>
                 Read(returned[1].node.args[1])
                     = ReadIn(returned[1].node.args[1], returned[1].envAtCall)

\* The parameters of the tag of `node` that the call gives no argument.
Unmatched(node) ==
    {AstTags[node.name].params[i] :
         i \in (Len(node.args) + 1)..Len(AstTags[node.name].params)}

\* The call of `node` has fewer arguments than the tag has parameters.
HasUnmatched(node) ==
    /\ node.name \in DOMAIN AstTags
    /\ Len(node.args) < Len(AstTags[node.name].params)

\* C8: a call with fewer arguments than parameters, none included, binds the
\* others to the empty string in a scope pushed for the call, and the
\* caller's variable of the same name is as it was after the return.
C8_MissingParametersAreLocal ==
    /\ (/\ pc = "running"
        /\ lastResult = "Entered"
        /\ lastCmd.body.kind = "Call"
        /\ HasUnmatched(lastCmd.body))
       => /\ Len(environmentStack) = Len(Frame.envAtCall) + 1
          /\ \A n \in Unmatched(lastCmd.body) :
                 environmentStack[Len(environmentStack)].m[n] = Str("")
    /\ (/\ pc = "running"
        /\ returned # NoReturn
        /\ HasUnmatched(returned[1].node))
       => \A n \in Unmatched(returned[1].node) :
              Read(Var(n)) = ReadIn(Var(n), returned[1].envAtCall)

\* C9: an expression that evaluates leaves the value stack exactly one
\* deeper, `$$` calls with Do blocks, For, If and Quit values included.
C9_ExpressionPushesOne == ~exprSkew

InRan(stage) == \E i \in 1..Len(ran) : ran[i] = stage

\* C10: evaluate runs the parser only if the tokenizer reported no error and
\* the interpreter only if the parser reported no error and gave an ast; when
\* a stage fails the output is empty and the errors are that stage's.
C10_EvaluateShortCircuits ==
    /\ InRan("parse") => Len(tokenizeResult.errors) = 0
    /\ InRan("interpret") =>
           /\ InRan("parse")
           /\ Len(parseResult.errors) = 0
           /\ parseResult.ast
    /\ (pc = "returned" /\ Len(tokenizeResult.errors) > 0) =>
           /\ evaluateResult = EvaluateResult("", tokenizeResult.errors)
           /\ ran = <<"tokenize">>
    /\ (pc = "returned" /\ InRan("parse") /\ (Len(parseResult.errors) > 0 \/ ~parseResult.ast)) =>
           /\ evaluateResult = EvaluateResult("", parseResult.errors)
           /\ ran = <<"tokenize", "parse">>

\* The tokenizer reported no error, the parser reported two, and evaluate
\* returned them with an empty output without running the interpreter.
C10_ParseErrorsReturned ==
    /\ pc = "returned"
    /\ ran = <<"tokenize", "parse">>
    /\ Len(parseResult.errors) = 2
    /\ evaluateResult = EvaluateResult("", parseResult.errors)

----------------------------------------------------------------------------
(* The array of mValue.ts alone: any sequence of mArraySet and mArrayKill   *)
(* on one array, and mValueCopy of it.                                      *)

\* The keys and the values of the operations.  A value is a scalar or an
\* array with children of its own, built as the interpreter builds it.
ArrayKeys == <<"", "1", "10", "2", "a">>

NestedArray == mArraySet(mArraySet(NewArray(Str("")), "2", Num(2)), "10", Str("x"))

ArrayValues == <<Str("x"), Num(0), NestedArray>>

InitArray ==
    /\ pc = "array"
    /\ evaluator = "src/evaluate.ts"
    /\ Fresh
    /\ IdleUnits

ArrayStep(op, result) ==
    /\ array' = result
    /\ arrayOp' = op
    /\ UNCHANGED <<interpreterVars, pc, evaluateVars, parserVars, uiVars>>

\* mArraySet(array, key, value)
ArraySet ==
    /\ pc = "array"
    /\ \E k \in 1..Len(ArrayKeys), v \in 1..Len(ArrayValues) :
           ArrayStep(Op("set", ArrayKeys[k], ArrayValues[v]),
                     mArraySet(array, ArrayKeys[k], ArrayValues[v]))

\* mArrayKill(array, key)
ArrayKill ==
    /\ pc = "array"
    /\ \E k \in 1..Len(ArrayKeys) :
           ArrayStep(Op("kill", ArrayKeys[k], Str("")), mArrayKill(array, ArrayKeys[k]))

\* mValueCopy(array): the copy takes the place of the array.
ArrayCopy ==
    /\ pc = "array"
    /\ ArrayStep(Op("copy", "", Str("")), mValueCopy(array))

NextArray == ArraySet \/ ArrayKill \/ ArrayCopy

SpecArray == InitArray /\ [][NextArray]_vars

\* The keys that are asked for: those of the operations and some that are
\* never stored.
AskedKeys == {KeyOrder[i] : i \in 1..Len(KeyOrder)}

StoredKeys(a) == {a.children[i].key : i \in 1..Len(a.children)}

\* The least and the greatest key of a non-empty set, "" for the empty set.
LeastKey(keys) ==
    IF keys = {} THEN ""
    ELSE CHOOSE k \in keys : \A other \in keys : ~StrLess(other, k)

GreatestKey(keys) ==
    IF keys = {} THEN ""
    ELSE CHOOSE k \in keys : \A other \in keys : ~StrLess(k, other)

\* If k2 is the key after k1 and is not empty, k1 is the key before k2.
NextThenPrevious(k1) ==
    mArrayGetNextKey(array, k1) # ""
        => mArrayGetPreviousKey(array, mArrayGetNextKey(array, k1)) = k1

\* C12, as stated: for every array built by mArraySet and mArrayKill and
\* every key k1, if k2 = mArrayGetNextKey(array, k1) is not the empty string
\* then mArrayGetPreviousKey(array, k2) is k1.
C12_NextThenPreviousAnyKey == \A k1 \in AskedKeys : NextThenPrevious(k1)

\* C12, amended: the same for every k1 that is a stored key or the empty
\* string.
C12_NextThenPreviousStoredKey ==
    \A k1 \in StoredKeys(array) \cup {""} : NextThenPrevious(k1)

\* After sets and a kill the array holds three keys, "" among them, and the
\* key after "1" is "2".
C12_ThreeKeysLeft ==
    /\ arrayOp.op = "kill"
    /\ StoredKeys(array) = {"", "1", "2"}
    /\ mArrayGetNextKey(array, "1") = "2"

\* mArrayGet of every key other than `key` is the same in `after` as in the
\* array.
OthersKept(after, key) ==
    \A other \in AskedKeys \ {key} : mArrayGet(after, other) = mArrayGet(array, other)

\* C13: after mArraySet(array, k, v), mArrayGet(array, k) is v; after
\* mArrayKill(array, k) it is the empty string; mArrayGet of every other key
\* is what it was.
C13_SetKillThenGet ==
    \A k \in AskedKeys :
        /\ \A i \in 1..Len(ArrayValues) :
               /\ mArrayGet(mArraySet(array, k, ArrayValues[i]), k) = ArrayValues[i]
               /\ OthersKept(mArraySet(array, k, ArrayValues[i]), k)
        /\ mArrayGet(mArrayKill(array, k), k) = Str("")
        /\ OthersKept(mArrayKill(array, k), k)

\* The array holds four keys, the last operation set one of them to an array
\* and reading it gives that array.
C13_FourKeysSet ==
    /\ arrayOp.op = "set"
    /\ arrayOp.value = NestedArray
    /\ Len(array.children) = 4
    /\ mArrayGet(array, arrayOp.key) = NestedArray

\* What mArrayGetNextKey is said to return.
NextKeyOf(a, k) ==
    IF k = "" THEN LeastKey(StoredKeys(a))
    ELSE LeastKey({s \in StoredKeys(a) : StrLess(k, s)})

\* What mArrayGetPreviousKey is said to return.
PreviousKeyOf(a, k) ==
    IF k = "" THEN GreatestKey(StoredKeys(a))
    ELSE GreatestKey({s \in StoredKeys(a) : StrLess(s, k)})

\* C14, as stated: mArrayGetNextKey(array, k) is the smallest stored key
\* strictly greater than k, or "" when there is none, and the smallest
\* stored key when k is ""; mArrayGetPreviousKey mirrors it.
C14_NextAndPreviousKey ==
    \A k \in AskedKeys :
        /\ mArrayGetNextKey(array, k) = NextKeyOf(array, k)
        /\ mArrayGetPreviousKey(array, k) = PreviousKeyOf(array, k)

\* C14, amended: when k is "", mArrayGetNextKey gives the smallest stored
\* key other than "", that is the smallest stored key strictly greater than
\* k as for every other k.
C14_NextKeyStrictlyGreater ==
    \A k \in AskedKeys :
        /\ mArrayGetNextKey(array, k) = LeastKey({s \in StoredKeys(array) : StrLess(k, s)})
        /\ mArrayGetPreviousKey(array, k) = PreviousKeyOf(array, k)

\* The array holds "", "10" and "a": the key after "" is "10", the key after
\* "2", which is not stored, is "a", and the key before "2" is "10".
C14_BetweenStoredKeys ==
    /\ StoredKeys(array) = {"", "10", "a"}
    /\ mArrayGetNextKey(array, "") = "10"
    /\ mArrayGetNextKey(array, "2") = "a"
    /\ mArrayGetPreviousKey(array, "2") = "10"

\* The children are in strictly ascending key order, and so are those of
\* every array among their values.
RECURSIVE Ascending(_)
Ascending(a) ==
    /\ \A i \in 1..(Len(a.children) - 1) : StrLess(a.children[i].key, a.children[i + 1].key)
    /\ \A i \in 1..Len(a.children) :
           IsObject(a.children[i].value) => Ascending(a.children[i].value)

\* C15: after any sequence of mArraySet and mArrayKill, and in every array
\* that mValueCopy makes, the children are in strictly ascending key order.
C15_ChildrenAscending ==
    /\ Ascending(array)
    /\ Ascending(mValueCopy(array))

\* A copy took the place of an array of five keys, one of them an array.
C15_FiveKeysCopied ==
    /\ arrayOp.op = "copy"
    /\ Len(array.children) = 5
    /\ \E i \in 1..5 : IsObject(array.children[i].value)

----------------------------------------------------------------------------
(* $Order over the keys of the variable a.                                  *)

\* What getVariable finds for the name a, with no subscripts.
StoredAt == getVariable(Var("a"), State, 0, NoValues)

\* The keys stored at the first level of a, in the order they are kept.
StoredList ==
    IF StoredAt.r = "value" /\ IsObject(StoredAt.v)
    THEN [i \in 1..Len(StoredAt.v.children) |-> StoredAt.v.children[i].key]
    ELSE <<>>

\* The keys of a list that are not the empty string.
RECURSIVE NonEmptyKeys(_)
NonEmptyKeys(keys) ==
    IF keys = <<>> THEN <<>>
    ELSE IF Head(keys) = "" THEN NonEmptyKeys(Tail(keys))
    ELSE <<Head(keys)>> \o NonEmptyKeys(Tail(keys))

\* $O(a(key)) in the state.
OrderAfter(key) ==
    interpretOrderBuiltin(OrderBuiltin(Variable("a", <<StringLiteral(key)>>)), State)

\* The keys that repeating key = $O(a(key)) yields from `key` on, up to the
\* empty string, at most n of them; a $O that does not evaluate ends them
\* with a mark.
RECURSIVE OrderWalk(_, _)
OrderWalk(key, n) ==
    IF ~OrderAfter(key).ok THEN <<"$Order failed">>
    ELSE IF Top(OrderAfter(key).st).s = "" \/ n = 0 THEN <<>>
    ELSE <<Top(OrderAfter(key).st).s>> \o OrderWalk(Top(OrderAfter(key).st).s, n - 1)

\* The loop f  s b=$O(a(b)) q:b=""  w b  has just been left by its Quit.
OrderLoopLeft ==
    /\ pc = "running"
    /\ loopDone.done
    /\ lastCmd = OrderQuit
    /\ lastResult = "Quit"

\* The last n strings of the output.
LastOutput(n) == SubSeq(output, Len(output) - n + 1, Len(output))

\* C16: from the empty key, key = $O(a(key)) visits every key stored at
\* that level of a once, in ascending order, and then yields the empty
\* string; the loop f s key=$O(a(key)) q:key="" ... runs its body once for
\* each stored key and ends, when no stored key is the empty string.
C16_OrderVisitsEveryKey ==
    /\ pc = "running" => OrderWalk("", Len(KeyOrder)) = StoredList
    /\ (OrderLoopLeft /\ NonEmptyKeys(StoredList) = StoredList) =>
           /\ loopDone.count = Len(StoredList) + 1
           /\ Len(output) >= Len(StoredList)
           /\ LastOutput(Len(StoredList)) = StoredList

\* The walk with the stored keys other than the empty string in the place
\* of the stored keys.
OrderVisitsNonEmptyKeys ==
    /\ pc = "running" => OrderWalk("", Len(KeyOrder)) = NonEmptyKeys(StoredList)
    /\ OrderLoopLeft =>
           /\ loopDone.count = Len(NonEmptyKeys(StoredList)) + 1
           /\ Len(output) >= Len(NonEmptyKeys(StoredList))
           /\ LastOutput(Len(NonEmptyKeys(StoredList))) = NonEmptyKeys(StoredList)

\* No slot of the environment stack is empty.
NoHole == \A i \in 1..Len(environmentStack) : environmentStack[i] # Hole


\* C17: a Merge whose source and destination name the same stored node, or
\* one a node above the other's, by whatever names (a by-reference parameter
\* that stands for the other variable included), halts with the error
\* "Cannot merge overlapping variables" and changes no variable.
C17_OverlappingMergeRefused ==
    (merged.done /\ merged.overlap) => (merged.refused /\ ~merged.changed)

\* The same of the Merges whose two variables have the same name.
MergeOfOneNameRefused ==
    (merged.done /\ merged.overlap /\ lastCmd.body.left.name = lastCmd.body.right.name) =>
        (merged.refused /\ ~merged.changed)

\* A Merge is refused only when its variables overlap.
MergeRefusedOnlyWhenOverlapping ==
    (merged.done /\ merged.refused) => merged.overlap

----------------------------------------------------------------------------
(* The parser: src/src/parser.ts.                                           *)
(*                                                                          *)
(* The input is Token[][], the lines of tokens; every line ends with a      *)
(* TrailingWhitespace token.  A token is its kind and, for an identifier, a *)
(* number or a string, its text or value; the text of an identifier is the  *)
(* tuple of its characters.  Positions in the source text are left out: an  *)
(* error is its message.                                                    *)
(*                                                                          *)
(* A parse function returns its node (ok is FALSE when the source returns   *)
(* undefined) and the parser state it leaves.                               *)

Token(kind) == [kind |-> kind]
IdentifierToken(text) == [kind |-> "Identifier", text |-> text]
NumberToken(value) == [kind |-> "Number", value |-> value]
StringToken(value) == [kind |-> "String", value |-> value]

\* ParserState, with the fields of its ParserPosition.
ParserState(line, column, nextUnparsedLine, indentationLevel, parseErrors) ==
    [line |-> line, column |-> column, nextUnparsedLine |-> nextUnparsedLine,
     indentationLevel |-> indentationLevel, errors |-> parseErrors]

Parsed(node, st) == [ok |-> TRUE, node |-> node, st |-> st]
NotParsed(st) == [ok |-> FALSE, node |-> NoExpr, st |-> st]

jumpToLine(line, st) ==
    [st EXCEPT !.column = 0, !.line = line, !.nextUnparsedLine = line + 1]

moveToNextUnparsedLine(st) == jumpToLine(st.nextUnparsedLine, st)

getToken(input, st) == input[st.line + 1][st.column + 1]

\* The state that nextToken leaves; the token it returns is getToken.
nextToken(input, st) ==
    IF getToken(input, st).kind # "TrailingWhitespace"
    THEN [st EXCEPT !.column = @ + 1]
    ELSE st

\* matchToken returns a token, and then has moved over it.
Matches(input, st, validKind) == getToken(input, st).kind = validKind

matchToken(input, st, validKind) ==
    IF Matches(input, st, validKind) THEN nextToken(input, st) ELSE st

getWhitespace(input, st) ==
    getToken(input, st).kind \in {"Space", "TrailingWhitespace", "LeadingWhitespace"}

matchWhitespace(input, st) ==
    IF getWhitespace(input, st) THEN nextToken(input, st) ELSE st

\* reportError and reportErrorAt of the parser.
reportErrorAt(message, st) == [st EXCEPT !.errors = Append(@, message)]

\* `identifier.text` as the string the interpreter reads.
Text(chars) == Join(chars)

LowerCase ==
    [c \in {"W", "R", "I", "T", "E", "Q", "U", "D", "O", "F", "L", "S", "N", "K"} |->
        CASE c = "W" -> "w" [] c = "R" -> "r" [] c = "I" -> "i" [] c = "T" -> "t"
          [] c = "E" -> "e" [] c = "Q" -> "q" [] c = "U" -> "u" [] c = "D" -> "d"
          [] c = "O" -> "o" [] c = "F" -> "f" [] c = "L" -> "l" [] c = "S" -> "s"
          [] c = "N" -> "n" [] c = "K" -> "k"]

\* `text.toLowerCase()`
toLowerCase(chars) ==
    [i \in 1..Len(chars) |-> IF chars[i] \in DOMAIN LowerCase THEN LowerCase[chars[i]]
                             ELSE chars[i]]

\* `full.startsWith(chars)`
startsWith(full, chars) ==
    Len(chars) <= Len(full) /\ SubSeq(full, 1, Len(chars)) = chars

RECURSIVE parseExpression(_, _)
RECURSIVE ExpressionListLoop(_, _, _)
RECURSIVE ArgsLoop(_, _, _)
RECURSIVE SubscriptsLoop(_, _, _)

\* The end of parseArgs and of parseSubscripts: the closing parenthesis.
ListClose(input, message, list, st) ==
    IF Matches(input, st, "RightParen")
    THEN [ok |-> TRUE, list |-> list, st |-> nextToken(input, st)]
    ELSE [ok |-> FALSE, list |-> list, st |-> reportErrorAt(message, st)]

\* parseSubscripts after parseExpression of a subscript.
SubscriptsNext(input, list, e) ==
    IF ~e.ok THEN ListClose(input, "Unterminated subscript list", list, e.st)
    ELSE IF Matches(input, e.st, "Comma")
    THEN SubscriptsLoop(input, Append(list, e.node), nextToken(input, e.st))
    ELSE ListClose(input, "Unterminated subscript list", Append(list, e.node), e.st)

SubscriptsLoop(input, list, st) ==
    IF Matches(input, st, "RightParen")
    THEN ListClose(input, "Unterminated subscript list", list, st)
    ELSE SubscriptsNext(input, list, parseExpression(input, st))

parseSubscripts(input, st) ==
    IF Matches(input, st, "LeftParen") THEN SubscriptsLoop(input, <<>>, nextToken(input, st))
    ELSE [ok |-> TRUE, list |-> <<>>, st |-> st]

\* parseArgs after an argument.
ArgsAfter(input, list, st) ==
    IF Matches(input, st, "Comma") THEN ArgsLoop(input, list, nextToken(input, st))
    ELSE ListClose(input, "Unterminated argument list", list, st)

\* parseArgs after parseExpression of an argument.
ArgsNext(input, list, e) ==
    IF ~e.ok THEN ListClose(input, "Unterminated argument list", list, e.st)
    ELSE ArgsAfter(input, Append(list, e.node), e.st)

\* parseArgs after the dot of a reference.
ArgsReference(input, list, st) ==
    IF Matches(input, st, "Identifier")
    THEN ArgsAfter(input, Append(list, ReferenceArg(Text(getToken(input, st).text))),
                   nextToken(input, st))
    ELSE [ok |-> FALSE, list |-> list,
          st |-> reportErrorAt("Expected variable name to reference", st)]

ArgsLoop(input, list, st) ==
    IF Matches(input, st, "RightParen")
    THEN ListClose(input, "Unterminated argument list", list, st)
    ELSE IF Matches(input, st, "Dot") THEN ArgsReference(input, list, nextToken(input, st))
    ELSE ArgsNext(input, list, parseExpression(input, st))

parseArgs(input, st) ==
    IF Matches(input, st, "LeftParen") THEN ArgsLoop(input, <<>>, nextToken(input, st))
    ELSE [ok |-> TRUE, list |-> <<>>, st |-> st]

\* parseCall after parseArgs.
CallOver(name, args) ==
    IF ~args.ok THEN NotParsed(args.st) ELSE Parsed(CallNode(name, args.list), args.st)

parseCall(input, st) ==
    IF ~Matches(input, st, "Identifier")
    THEN NotParsed(reportErrorAt("Expected an identifier", st))
    ELSE CallOver(Text(getToken(input, st).text), parseArgs(input, nextToken(input, st)))

\* parseVariable after parseSubscripts.
VariableOver(name, subscripts) ==
    IF ~subscripts.ok THEN NotParsed(subscripts.st)
    ELSE Parsed(Variable(name, subscripts.list), subscripts.st)

parseVariable(input, st) ==
    IF ~Matches(input, st, "Identifier")
    THEN NotParsed(reportErrorAt("Expected variable to start with an identifier", st))
    ELSE VariableOver(Text(getToken(input, st).text),
                      parseSubscripts(input, nextToken(input, st)))

\* parseExpressionList after parseExpression of an element.
ExpressionListNext(input, list, e) ==
    IF ~e.ok THEN [ok |-> FALSE, list |-> list, st |-> e.st]
    ELSE IF Matches(input, e.st, "Comma")
    THEN ExpressionListLoop(input, Append(list, e.node), nextToken(input, e.st))
    ELSE [ok |-> TRUE, list |-> Append(list, e.node), st |-> e.st]

ExpressionListLoop(input, list, st) ==
    IF getWhitespace(input, st)
    THEN [ok |-> TRUE, list |-> list, st |-> nextToken(input, st)]
    ELSE ExpressionListNext(input, list, parseExpression(input, st))

parseExpressionList(input, st) == ExpressionListLoop(input, <<>>, st)

\* BuiltinAstNode of the parser: { kind: Builtin, builtinKind, args }.
BuiltinNode(builtinKind, args) ==
    [kind |-> "Builtin", builtinKind |-> builtinKind, args |-> args]

\* parseBuiltin after parseExpressionList.
BuiltinOver(input, name, args) ==
    IF ~args.ok THEN NotParsed(args.st)
    ELSE IF ~startsWith(<<"o", "r", "d", "e", "r">>, toLowerCase(name))
            /\ ~startsWith(<<"l", "e", "n", "g", "t", "h">>, toLowerCase(name))
    THEN NotParsed(reportErrorAt("Unrecognized builtin", args.st))
    ELSE IF ~Matches(input, args.st, "RightParen")
    THEN NotParsed(reportErrorAt("Unterminated argument list", args.st))
    ELSE Parsed(BuiltinNode(IF startsWith(<<"o", "r", "d", "e", "r">>, toLowerCase(name))
                            THEN "Order" ELSE "Length",
                            args.list),
                nextToken(input, args.st))

\* parseBuiltin after the name.
BuiltinArgs(input, name, st) ==
    IF ~Matches(input, st, "LeftParen")
    THEN NotParsed(reportErrorAt("Expected argument list after builtin name", st))
    ELSE BuiltinOver(input, name, parseExpressionList(input, nextToken(input, st)))

parseBuiltin(input, st) ==
    IF ~Matches(input, st, "Identifier")
    THEN NotParsed(reportErrorAt("Expected builtin name", st))
    ELSE BuiltinArgs(input, getToken(input, st).text, nextToken(input, st))

\* parsePrimary after parseExpression between parentheses.
ParenthesisOver(input, e) ==
    IF ~e.ok THEN e
    ELSE IF ~Matches(input, e.st, "RightParen")
    THEN NotParsed(reportErrorAt("Unterminated parenthesis", e.st))
    ELSE Parsed(e.node, nextToken(input, e.st))

parsePrimary(input, st) ==
    CASE Matches(input, st, "Dollar") ->
            IF Matches(input, nextToken(input, st), "Dollar")
            THEN parseCall(input, nextToken(input, nextToken(input, st)))
            ELSE parseBuiltin(input, nextToken(input, st))
      [] Matches(input, st, "String") ->
            Parsed(StringLiteral(getToken(input, st).value), nextToken(input, st))
      [] Matches(input, st, "Number") ->
            Parsed(NumberLiteral(getToken(input, st).value), nextToken(input, st))
      [] Matches(input, st, "Identifier") -> parseVariable(input, st)
      [] Matches(input, st, "LeftParen") ->
            ParenthesisOver(input, parseExpression(input, nextToken(input, st)))
      [] OTHER -> NotParsed(reportErrorAt("Expected an expression", st))

\* The switch of parseUnaryOp.
UnaryOpOf(kind) ==
    CASE kind = "SingleQuote" -> "Not"
      [] kind = "Minus" -> "Minus"
      [] kind = "Plus" -> "Plus"
      [] OTHER -> "undefined"

\* parseUnaryOp after parsePrimary of the operand.
UnaryOver(op, right) ==
    IF ~right.ok THEN right ELSE Parsed(UnaryOp(op, right.node), right.st)

parseUnaryOp(input, st) ==
    IF UnaryOpOf(getToken(input, st).kind) = "undefined" THEN parsePrimary(input, st)
    ELSE UnaryOver(UnaryOpOf(getToken(input, st).kind),
                   parsePrimary(input, nextToken(input, st)))

\* The two switches of parseExpression.
BinaryOpOf(kind, isNegated) ==
    CASE kind = "ExclamationPoint" -> "Or"
      [] kind = "Ampersand" -> "And"
      [] kind = "Equals" -> "Equals"
      [] kind = "LessThan" -> "LessThan"
      [] kind = "GreaterThan" -> "GreaterThan"
      [] kind = "Plus" /\ ~isNegated -> "Add"
      [] kind = "Minus" /\ ~isNegated -> "Subtract"
      [] kind = "Asterisk" /\ ~isNegated -> "Multiply"
      [] kind = "ForwardSlash" /\ ~isNegated -> "Divide"
      [] kind = "Underscore" /\ ~isNegated -> "Concatenate"
      [] OTHER -> "undefined"

RECURSIVE ExpressionLoop(_, _, _)

\* The node that the loop of parseExpression makes of `left`, the operator
\* and `right`, with the right operand taking the operator of a left
\* operand that is itself a binary operation.
BinaryOverRight(op, isNegated, left, right) ==
    IF left.kind = "BinaryOp"
    THEN BinaryOp(left.op, left.left, BinaryOp(op, left.right, right, isNegated),
                  left.isNegated)
    ELSE BinaryOp(op, left, right, isNegated)

\* The node that the loop of parseExpression makes of `left`, the operator
\* and `right`.
BinaryOver(op, isNegated, left, right) == BinaryOp(op, left, right, isNegated)

\* The loop of parseExpression after parseUnaryOp of the right operand.
ExpressionRight(input, op, isNegated, left, right) ==
    IF ~right.ok THEN right
    ELSE ExpressionLoop(input, BinaryOver(op, isNegated, left, right.node), right.st)

\* The loop of parseExpression after its matchToken of a single quote.
ExpressionOp(input, isNegated, left, st) ==
    IF BinaryOpOf(getToken(input, st).kind, isNegated) = "undefined" THEN Parsed(left, st)
    ELSE ExpressionRight(input, BinaryOpOf(getToken(input, st).kind, isNegated), isNegated,
                         left, parseUnaryOp(input, nextToken(input, st)))

ExpressionLoop(input, left, st) ==
    ExpressionOp(input, Matches(input, st, "SingleQuote"), left,
                 matchToken(input, st, "SingleQuote"))

\* parseExpression after parseUnaryOp of the first operand.
ExpressionLeft(input, left) ==
    IF ~left.ok THEN left ELSE ExpressionLoop(input, left.node, left.st)

parseExpression(input, st) == ExpressionLeft(input, parseUnaryOp(input, st))

----------------------------------------------------------------------------
(* The commands of the parser.                                              *)

RECURSIVE parseCommand(_, _)
RECURSIVE parseBlock(_, _, _)
RECURSIVE WriteArgs(_, _, _)
RECURSIVE ChildrenLoop(_, _, _)
RECURSIVE IfConditions(_, _, _)
RECURSIVE ForExpressions(_, _, _, _)
RECURSIVE SetArgs(_, _, _)
RECURSIVE IdentifierListLoop(_, _, _)

ListParsed(list, st) == [ok |-> TRUE, list |-> list, st |-> st]
ListNotParsed(st) == [ok |-> FALSE, list |-> <<>>, st |-> st]

\* parseWrite after an argument.
WriteArgsAfter(input, args, st) ==
    IF Matches(input, st, "Comma") THEN WriteArgs(input, args, nextToken(input, st))
    ELSE Parsed(WriteBody(args), st)

\* parseWrite after parseExpression of an argument.
WriteArgsNext(input, args, e) ==
    IF ~e.ok THEN e ELSE WriteArgsAfter(input, Append(args, e.node), e.st)

WriteArgs(input, args, st) ==
    IF getWhitespace(input, st) THEN Parsed(WriteBody(args), nextToken(input, st))
    ELSE CASE Matches(input, st, "Hash") ->
                WriteArgsAfter(input, Append(args, HashFormatter), nextToken(input, st))
           [] Matches(input, st, "ExclamationPoint") ->
                WriteArgsAfter(input, Append(args, ExclamationPointFormatter),
                               nextToken(input, st))
           [] OTHER -> WriteArgsNext(input, args, parseExpression(input, st))

parseWrite(input, st) == WriteArgs(input, <<>>, st)

\* parseQuit after parseExpression of the return value.
QuitOver(returnValue) ==
    IF ~returnValue.ok THEN returnValue
    ELSE Parsed(QuitBody(returnValue.node), returnValue.st)

parseQuit(input, st) ==
    IF getWhitespace(input, st) THEN Parsed(QuitBody(NoExpr), st)
    ELSE QuitOver(parseExpression(input, st))

\* parseDo after parseBlock: the block's lines are parsed, and the line of
\* the Do goes on.
DoOver(st, block) ==
    IF ~block.ok THEN NotParsed([block.st EXCEPT !.indentationLevel = @ - 1])
    ELSE Parsed(DoBlockBody(block.list),
                [block.st EXCEPT !.indentationLevel = @ - 1,
                                 !.nextUnparsedLine = block.st.line,
                                 !.line = st.line, !.column = st.column])

parseDo(input, st) ==
    IF ~getWhitespace(input, st) THEN parseCall(input, st)
    ELSE DoOver(st, parseBlock(input, [st EXCEPT !.indentationLevel = @ + 1], TRUE))

\* The loop `while (!matchWhitespace(...))` over parseCommand, of parseIf,
\* parseElse and parseFor, after a command.
ChildrenNext(input, children, command) ==
    IF ~command.ok THEN ListNotParsed(command.st)
    ELSE ChildrenLoop(input, Append(children, command.node), command.st)

ChildrenLoop(input, children, st) ==
    IF getWhitespace(input, st) THEN ListParsed(children, nextToken(input, st))
    ELSE ChildrenNext(input, children, parseCommand(input, st))

\* parseIf after its children.
IfOver(conditions, children) ==
    IF ~children.ok THEN NotParsed(children.st)
    ELSE Parsed(IfBody(conditions, children.list), children.st)

\* parseIf after parseExpression of a condition.
IfConditionsNext(input, conditions, e) ==
    IF ~e.ok THEN e
    ELSE IF Matches(input, e.st, "Comma")
    THEN IfConditions(input, Append(conditions, e.node), nextToken(input, e.st))
    ELSE IF ~getWhitespace(input, e.st)
    THEN NotParsed(reportErrorAt("Expected space after if conditions", e.st))
    ELSE IfOver(Append(conditions, e.node),
                ChildrenLoop(input, <<>>, nextToken(input, e.st)))

IfConditions(input, conditions, st) ==
    IF getWhitespace(input, st)
    THEN IfOver(conditions, ChildrenLoop(input, <<>>, nextToken(input, st)))
    ELSE IfConditionsNext(input, conditions, parseExpression(input, st))

parseIf(input, st) == IfConditions(input, <<>>, st)

\* parseElse after its children.
ElseOver(children) ==
    IF ~children.ok THEN NotParsed(children.st)
    ELSE Parsed(ElseBody(children.list), children.st)

parseElse(input, st) ==
    IF ~getWhitespace(input, st)
    THEN NotParsed(reportErrorAt("Expected no arguments for else command", st))
    ELSE ElseOver(ChildrenLoop(input, <<>>, nextToken(input, st)))

\* parseForArgument after parseExpression of part i.
ForExpressionsNext(input, variable, expressions, part) ==
    IF ~part.ok THEN part
    ELSE IF Len(expressions) < 2 /\ Matches(input, part.st, "Colon")
    THEN ForExpressions(input, variable, Append(expressions, part.node),
                        nextToken(input, part.st))
    ELSE Parsed(ForArg(variable, Append(expressions, part.node)), part.st)

ForExpressions(input, variable, expressions, st) ==
    ForExpressionsNext(input, variable, expressions, parseExpression(input, st))

\* parseForArgument after parseVariable.
ForArgumentOver(input, variable) ==
    IF ~variable.ok THEN variable
    ELSE IF ~Matches(input, variable.st, "Equals")
    THEN NotParsed(reportErrorAt("Expected equals after for loop variable", variable.st))
    ELSE ForExpressions(input, variable.node, <<>>, nextToken(input, variable.st))

parseForArgument(input, st) == ForArgumentOver(input, parseVariable(input, st))

\* parseFor after its children.
ForOver(arg, children) ==
    IF ~children.ok THEN NotParsed(children.st)
    ELSE Parsed(ForBody(arg, children.list), children.st)

\* parseFor after parseForArgument, whose failure it does not look at.
ForArgumentThen(input, arg) ==
    IF ~getWhitespace(input, arg.st)
    THEN NotParsed(reportErrorAt("Expected space after for loop argument", arg.st))
    ELSE ForOver(IF arg.ok THEN arg.node ELSE NoForArg,
                 ChildrenLoop(input, <<>>, nextToken(input, arg.st)))

parseFor(input, st) ==
    IF getWhitespace(input, st)
    THEN ForOver(NoForArg, ChildrenLoop(input, <<>>, nextToken(input, st)))
    ELSE ForArgumentThen(input, parseForArgument(input, st))

\* SetArgumentAstNode of the parser: { kind: SetArgument, variable, value }.
SetArgumentNode(variable, value) ==
    [kind |-> "SetArgument", variable |-> variable, value |-> value]

\* parseSet after parseExpression of the value.
SetArgsValue(input, args, variable, e) ==
    IF ~e.ok THEN e
    ELSE IF Matches(input, e.st, "Comma")
    THEN SetArgs(input, Append(args, SetArgumentNode(variable, e.node)),
                 nextToken(input, e.st))
    ELSE Parsed(SetBody(Append(args, SetArgumentNode(variable, e.node))), e.st)

\* parseSet after parseVariable.
SetArgsVariable(input, args, variable) ==
    IF ~variable.ok THEN variable
    ELSE IF ~Matches(input, variable.st, "Equals")
    THEN NotParsed(reportErrorAt("Expected equals after identifier in set command",
                                 variable.st))
    ELSE SetArgsValue(input, args, variable.node,
                      parseExpression(input, nextToken(input, variable.st)))

SetArgs(input, args, st) ==
    IF getWhitespace(input, st) THEN Parsed(SetBody(args), nextToken(input, st))
    ELSE SetArgsVariable(input, args, parseVariable(input, st))

parseSet(input, st) == SetArgs(input, <<>>, st)

IdentifierListLoop(input, identifiers, st) ==
    IF getWhitespace(input, st) THEN ListParsed(identifiers, nextToken(input, st))
    ELSE IF ~Matches(input, st, "Identifier") THEN ListNotParsed(st)
    ELSE IF Matches(input, nextToken(input, st), "Comma")
    THEN IdentifierListLoop(input, Append(identifiers, Text(getToken(input, st).text)),
                            nextToken(input, nextToken(input, st)))
    ELSE ListParsed(Append(identifiers, Text(getToken(input, st).text)),
                    nextToken(input, st))

parseIdentifierList(input, st) == IdentifierListLoop(input, <<>>, st)

\* parseNew and parseKill after parseIdentifierList.
NewOver(args) == IF ~args.ok THEN NotParsed(args.st) ELSE Parsed(NewBody(args.list), args.st)

parseNew(input, st) == NewOver(parseIdentifierList(input, st))

KillOver(args) ==
    IF ~args.ok THEN NotParsed(args.st) ELSE Parsed(KillBody(args.list), args.st)

parseKill(input, st) == KillOver(parseIdentifierList(input, st))

\* The full command names, in the order in which parseCommand tries them.
CommandNames ==
    <<<<"w", "r", "i", "t", "e">>, <<"q", "u", "i", "t">>, <<"d", "o">>, <<"i", "f">>,
      <<"e", "l", "s", "e">>, <<"f", "o", "r">>, <<"s", "e", "t">>, <<"n", "e", "w">>,
      <<"k", "i", "l", "l">>>>

\* The chain of `"write".startsWith(lowerCaseName)` ... with the name and
\* the full name the other way round.
commandOfLonger(lowerCaseName) ==
    IF \E i \in 1..Len(CommandNames) : startsWith(lowerCaseName, CommandNames[i])
    THEN CHOOSE i \in 1..Len(CommandNames) :
             /\ startsWith(lowerCaseName, CommandNames[i])
             /\ \A j \in 1..(i - 1) : ~startsWith(lowerCaseName, CommandNames[j])
    ELSE 0

\* The chain of `"write".startsWith(lowerCaseName)` ... of parseCommand: the
\* place in CommandNames of the first full name that the name begins, 0
\* when it begins none.
commandOf(lowerCaseName) ==
    IF \E i \in 1..Len(CommandNames) : startsWith(CommandNames[i], lowerCaseName)
    THEN CHOOSE i \in 1..Len(CommandNames) :
             /\ startsWith(CommandNames[i], lowerCaseName)
             /\ \A j \in 1..(i - 1) : ~startsWith(CommandNames[j], lowerCaseName)
    ELSE 0

\* parseCommand after the body.
CommandOver(input, condition, body) ==
    IF ~body.ok THEN body
    ELSE IF ~getWhitespace(input, body.st)
    THEN NotParsed(reportErrorAt("Expected space between arguments and next commands",
                                 body.st))
    ELSE Parsed(Command(condition, body.node), nextToken(input, body.st))

\* parseCommand from its chain of names on.
CommandBody(input, name, condition, st) ==
    CommandOver(input, condition,
                CASE commandOf(toLowerCase(name)) = 1 -> parseWrite(input, st)
                  [] commandOf(toLowerCase(name)) = 2 -> parseQuit(input, st)
                  [] commandOf(toLowerCase(name)) = 3 -> parseDo(input, st)
                  [] commandOf(toLowerCase(name)) = 4 -> parseIf(input, st)
                  [] commandOf(toLowerCase(name)) = 5 -> parseElse(input, st)
                  [] commandOf(toLowerCase(name)) = 6 -> parseFor(input, st)
                  [] commandOf(toLowerCase(name)) = 7 -> parseSet(input, st)
                  [] commandOf(toLowerCase(name)) = 8 -> parseNew(input, st)
                  [] commandOf(toLowerCase(name)) = 9 -> parseKill(input, st)
                  [] OTHER -> NotParsed(reportErrorAt("Unrecognized command name", st)))

\* parseCommand after the postcondition.
CommandSpace(input, name, condition, st) ==
    IF ~getWhitespace(input, st)
    THEN NotParsed(reportErrorAt("Expected space between command and arguments", st))
    ELSE CommandBody(input, name, condition, nextToken(input, st))

\* parseCommand after parseExpression of the postcondition.
CommandCondition(input, name, condition) ==
    IF ~condition.ok THEN condition
    ELSE CommandSpace(input, name, condition.node, condition.st)

\* parseCommand after the name.
CommandName(input, name, st) ==
    IF Matches(input, st, "Colon")
    THEN CommandCondition(input, name, parseExpression(input, nextToken(input, st)))
    ELSE CommandSpace(input, name, NoExpr, st)

parseCommand(input, st) ==
    IF Matches(input, st, "Comment") THEN Parsed(Cmd(CommentBody), nextToken(input, st))
    ELSE IF ~Matches(input, st, "Identifier")
    THEN NotParsed(reportErrorAt("Expected command name", st))
    ELSE CommandName(input, getToken(input, st).text, nextToken(input, st))

RECURSIVE BlockLoop(_, _, _, _)
RECURSIVE BlockDots(_, _, _, _, _)

\* The loop `for (i < state.indentationLevel)` of parseBlock, over the dots
\* of a line.
BlockDots(input, commands, st, i, startColumn) ==
    IF i >= st.indentationLevel THEN BlockLoop(input, commands, st, FALSE)
    ELSE IF ~Matches(input, st, "Dot")
    THEN ListParsed(commands, [st EXCEPT !.column = startColumn])
    ELSE IF ~Matches(input, nextToken(input, st), "Space")
    THEN ListNotParsed(reportErrorAt("Expected space after dot", nextToken(input, st)))
    ELSE BlockDots(input, commands, nextToken(input, nextToken(input, st)), i + 1,
                   startColumn)

\* parseBlock at the start of the line it has moved to.
BlockLine(input, commands, st) ==
    IF st.line >= Len(input) THEN ListParsed(commands, st)
    ELSE IF ~Matches(input, st, "LeadingWhitespace") THEN ListParsed(commands, st)
    ELSE BlockDots(input, commands, nextToken(input, st), 0, st.column)

\* parseBlock after parseCommand.
BlockCommand(input, commands, command) ==
    IF ~command.ok THEN ListNotParsed(command.st)
    ELSE BlockLoop(input, Append(commands, command.node), command.st, FALSE)

BlockLoop(input, commands, st, startOnNextLine) ==
    IF st.line < Len(input)
       /\ (startOnNextLine \/ Matches(input, st, "TrailingWhitespace"))
    THEN BlockLine(input, commands, moveToNextUnparsedLine(st))
    ELSE BlockCommand(input, commands, parseCommand(input, st))

parseBlock(input, st, startOnNextLine) == BlockLoop(input, <<>>, st, startOnNextLine)

RECURSIVE TagParams(_, _, _)

\* parseTag after its parameter list.
TagSpace(input, hasParams, params, st) ==
    IF ~getWhitespace(input, st)
    THEN [ok |-> FALSE, hasParams |-> hasParams, params |-> params,
          st |-> reportErrorAt("Expected space after tag name", st)]
    ELSE [ok |-> TRUE, hasParams |-> hasParams, params |-> params,
          st |-> nextToken(input, st)]

\* parseTag at the end of the loop over its parameters.
TagClose(input, params, st) ==
    IF ~Matches(input, st, "RightParen")
    THEN [ok |-> FALSE, hasParams |-> TRUE, params |-> params,
          st |-> reportErrorAt("Unterminated parameter list", st)]
    ELSE TagSpace(input, TRUE, params, nextToken(input, st))

TagParams(input, params, st) ==
    IF ~Matches(input, st, "Identifier")
    THEN TagClose(input, params,
                  IF Len(params) > 0 THEN reportErrorAt("Expected parameter name", st)
                  ELSE st)
    ELSE IF Matches(input, nextToken(input, st), "Comma")
    THEN TagParams(input, Append(params, Text(getToken(input, st).text)),
                   nextToken(input, nextToken(input, st)))
    ELSE TagClose(input, Append(params, Text(getToken(input, st).text)),
                  nextToken(input, st))

parseTag(input, st) ==
    IF Matches(input, st, "LeftParen") THEN TagParams(input, <<>>, nextToken(input, st))
    ELSE TagSpace(input, FALSE, <<>>, st)

\* TopLevelAstNode: the tags are the list of those that were set, a name at
\* most once.
TopLevel(tags, children) == [kind |-> "TopLevel", tags |-> tags, children |-> children]

NamedTag(name, index, params) ==
    [name |-> name, index |-> index, hasParams |-> params.hasParams,
     params |-> params.params]

\* `topLevel.tags.set(...)` without the test of `topLevel.tags.has(name)`:
\* the entry of the name is replaced where it stands.
WithTagSet(top, name, params) ==
    IF \E i \in 1..Len(top.tags) : top.tags[i].name = name
    THEN [top EXCEPT !.tags = [i \in 1..Len(top.tags) |->
                                  IF top.tags[i].name = name
                                  THEN NamedTag(name, Len(top.children), params)
                                  ELSE top.tags[i]]]
    ELSE [top EXCEPT !.tags = Append(@, NamedTag(name, Len(top.children), params))]

\* `if (!topLevel.tags.has(name)) topLevel.tags.set(...)`
WithTag(top, name, params) ==
    IF \E i \in 1..Len(top.tags) : top.tags[i].name = name THEN top
    ELSE [top EXCEPT !.tags = Append(@, NamedTag(name, Len(top.children), params))]

RECURSIVE TopLoop(_, _, _)

\* parseTopLevel after parseBlock.
TopBlock(input, top, block) ==
    IF ~block.ok THEN NotParsed(block.st)
    ELSE TopLoop(input, [top EXCEPT !.children = @ \o block.list], block.st)

\* parseTopLevel after parseTag.
TopTag(input, top, name, params) ==
    IF ~params.ok THEN NotParsed(params.st)
    ELSE TopBlock(input, WithTag(top, name, params), parseBlock(input, params.st, FALSE))

TopLoop(input, top, st) ==
    IF st.line >= Len(input) THEN Parsed(top, st)
    ELSE IF Matches(input, st, "Identifier")
    THEN TopTag(input, top, Text(getToken(input, st).text),
                parseTag(input, nextToken(input, st)))
    ELSE IF ~getWhitespace(input, st)
    THEN NotParsed(reportErrorAt("Expected leading space", st))
    ELSE TopBlock(input, top, parseBlock(input, nextToken(input, st), FALSE))

parseTopLevel(input, st) == TopLoop(input, TopLevel(<<>>, <<>>), st)

\* What parse returns: `{ ast, errors }`; hasAst is `ast !== undefined`.
ParseResult(top) ==
    [hasAst |-> top.ok, ast |-> IF top.ok THEN top.node ELSE TopLevel(<<>>, <<>>),
     errors |-> top.st.errors]

parse(input) == ParseResult(parseTopLevel(input, ParserState(0, 0, 1, 0, <<>>)))

----------------------------------------------------------------------------
(* evaluate from the tokens on: src/src/evaluate.ts, lines 15 to 24.        *)
(*                                                                          *)
(* The runs start from a Token[][] (the tokenizer that makes the tokens     *)
(* the parser reads is not among the sources).  The interpreter runs the    *)
(* ASTs whose commands are Writes of literals under unary and binary        *)
(* operators, for which the nodes of the parser are the nodes the           *)
(* interpreter reads; a run of another AST ends with the parse.             *)

\* The number an expression of literals evaluates to.
NumberOf(node) == mValueToNumber(Top(interpretExpression(node, State).st))

RECURSIVE IsArithmetic(_)
\* An expression of literal numbers under operators, whose quotients are
\* integers.
IsArithmetic(node) ==
    CASE node.kind = "NumberLiteral" -> TRUE
      [] node.kind = "UnaryOp" -> IsArithmetic(node.right)
      [] node.kind = "BinaryOp" ->
            /\ node.op # "Concatenate"
            /\ IsArithmetic(node.left)
            /\ IsArithmetic(node.right)
            /\ node.op = "Divide" =>
                  /\ NumberOf(node.right) # 0
                  /\ NumberOf(node.left) % NumberOf(node.right) = 0
      [] OTHER -> FALSE

IsWriteOfArithmetic(command) ==
    /\ command.condition.kind = "None"
    /\ command.body.kind = "Write"
    /\ \A i \in 1..Len(command.body.args) : IsArithmetic(command.body.args[i])

\* `q` with neither a condition nor a value.
IsPlainQuit(command) == command = Cmd(QuitBody(NoExpr))

RECURSIVE interpretTopLevel(_, _, _)
\* interpretTopLevel after interpretCommand of children[i].
TopLevelNext(children, i, outcome) ==
    IF outcome.result = "Continue" THEN interpretTopLevel(children, outcome.st, i + 1)
    ELSE outcome.st

\* The loop of interpretTopLevel over commands none of which enters a block
\* or a call; i is the index in the source plus 1.
interpretTopLevel(children, state, i) ==
    IF i > Len(children) THEN state
    ELSE TopLevelNext(children, i, interpretCommand(children[i], state))

MainIndexZero(ast) == 0

\* `ast.tags.get("main")?.index ?? 0`
MainIndex(ast) ==
    IF \E i \in 1..Len(ast.tags) : ast.tags[i].name = "main"
    THEN ast.tags[CHOOSE i \in 1..Len(ast.tags) : ast.tags[i].name = "main"].index
    ELSE 0

\* `parseResult.errors.length > 0 || !parseResult.ast`
ParseGaveNoAst(r) == Len(r.errors) > 0 \/ ~r.hasAst

\* `const parseResult = parse(tokenizeResult.tokenizedLines)`
ParseInput ==
    /\ pc = "parse"
    /\ parsed' = parse(tokenizedLines)
    /\ pc' = "parsedTokens"
    /\ UNCHANGED <<interpreterVars, evaluateVars, arrayVars, uiVars, tokenizedLines>>

\* evaluate returns the errors of the parser and no output.
ReturnParsedErrors ==
    /\ pc = "parsedTokens"
    /\ ParseGaveNoAst(parsed)
    /\ evaluateResult' = EvaluateResult("", parsed.errors)
    /\ pc' = "returned"
    /\ UNCHANGED <<interpreterVars, evaluator, tokenizeResult, parseResult, ran, unitVars>>

\* The state that interpret leaves.
Interpreted(state) ==
    /\ output' = state.output
    /\ errors' = state.errors
    /\ valueStack' = state.valueStack
    /\ environmentStack' = state.environmentStack
    /\ evaluateResult' = EvaluateResult(Join(state.output), state.errors)

\* `return interpret(parseResult.ast, externs)`
InterpretParsed ==
    /\ pc = "parsedTokens"
    /\ ~ParseGaveNoAst(parsed)
    /\ \A i \in 1..Len(parsed.ast.children) :
           IsWriteOfArithmetic(parsed.ast.children[i]) \/ IsPlainQuit(parsed.ast.children[i])
    /\ Interpreted(interpretTopLevel(parsed.ast.children, State, MainIndex(parsed.ast) + 1))
    /\ pc' = "returned"
    /\ UNCHANGED <<frames, steps, lastCmd, lastResult, returned, haltSeen, ranAfterHalt,
                   lastIf, elseWrong, exprSkew, killClean, loopDone, merged,
                   killedUnder>>
    /\ UNCHANGED <<evaluator, tokenizeResult, parseResult, ran, unitVars>>

NextParser == ParseInput \/ ReturnParsedErrors \/ InterpretParsed

\* evaluate is given the tokens of `lines`.
InitParser(lines) ==
    /\ pc = "parse"
    /\ evaluator = "src/evaluate.ts"
    /\ Fresh
    /\ array = NewArray(Str(""))
    /\ arrayOp = NoOp
    /\ parsed = NoParseResult
    /\ IdleUi
    /\ tokenizedLines \in lines

Line(tokens) == <<Token("LeadingWhitespace")>> \o tokens \o <<Token("TrailingWhitespace")>>

----------------------------------------------------------------------------
(* The runs of every line of at most MaxTokens tokens.                      *)

MaxTokens == 3

TokenChoices ==
    {IdentifierToken(<<"n">>), IdentifierToken(<<"w">>), IdentifierToken(<<"k">>),
     NumberToken(1), Token("Space"), Token("Comma"), Token("LeftParen"),
     Token("RightParen"), Token("Equals"), Token("Dollar"), Token("Colon"), Token("Plus")}

TokenLines == {<<Line(tokens)>> : tokens \in UNION {[1..n -> TokenChoices] : n \in 0..MaxTokens}}

InitTokens == InitParser(TokenLines)

SpecTokens == InitTokens /\ [][NextParser]_vars

\* C11: whenever parse returns no AST its list of errors is not empty, and
\* evaluate does not return an empty output with an empty list of errors
\* for tokens that did not parse.
C11_ParseFailureHasErrors ==
    /\ (pc \in {"parsedTokens", "returned"} /\ ~parsed.hasAst) => Len(parsed.errors) > 0
    /\ (pc = "returned" /\ ~parsed.hasAst) =>
           ~(evaluateResult.output = "" /\ evaluateResult.errors = <<>>)

----------------------------------------------------------------------------
(* The runs of the lines ` w a op1 b op2 c` and ` w 3+u(4-3)`, u a run of   *)
(* at most MaxUnary unary operators.                                        *)

BinaryTokens ==
    {"ExclamationPoint", "Ampersand", "Equals", "LessThan", "GreaterThan", "Plus", "Minus",
     "Asterisk", "ForwardSlash", "Underscore"}

\* A binary operator as it is written: its token, after a single quote when
\* it is negated.
Operators == [kind : BinaryTokens, isNegated : BOOLEAN]

OperatorTokens(o) ==
    IF o.isNegated THEN <<Token("SingleQuote"), Token(o.kind)>> ELSE <<Token(o.kind)>>

\* The binary operators of the language: `'` goes with the comparisons and
\* the logical operators only.
IsBinaryOperator(o) ==
    o.isNegated => o.kind \in {"ExclamationPoint", "Ampersand", "Equals", "LessThan",
                               "GreaterThan"}

Operands == {<<3, 4, 3>>, <<4, 10, 2>>, <<4, 2, 2>>}

\* ` w a op1 b op2 c`
ChainLine(n, o1, o2) ==
    Line(<<IdentifierToken(<<"w">>), Token("Space"), NumberToken(n[1])>>
         \o OperatorTokens(o1) \o <<NumberToken(n[2])>>
         \o OperatorTokens(o2) \o <<NumberToken(n[3])>>)

ChainLines == {<<ChainLine(n, o1, o2)>> : n \in Operands, o1 \in Operators, o2 \in Operators}

MaxUnary == 2

UnaryTokens == {"Plus", "Minus", "SingleQuote"}

UnaryRuns == UNION {[1..n -> UnaryTokens] : n \in 0..MaxUnary}

\* ` w 3+u(4-3)`
UnaryLine(u) ==
    Line(<<IdentifierToken(<<"w">>), Token("Space"), NumberToken(3), Token("Plus")>>
         \o [i \in 1..Len(u) |-> Token(u[i])]
         \o <<Token("LeftParen"), NumberToken(4), Token("Minus"), NumberToken(3),
              Token("RightParen")>>)

UnaryLines == {<<UnaryLine(u)>> : u \in UnaryRuns}

InitExpressions == InitParser(ChainLines \cup UnaryLines)

SpecExpressions == InitExpressions /\ [][NextParser]_vars

Plain(kind) == [kind |-> kind, isNegated |-> FALSE]

\* (a op1 b) op2 c, as a node and as a value.
LeftFirst(n, o1, o2) ==
    BinaryOp(BinaryOpOf(o2.kind, o2.isNegated),
             BinaryOp(BinaryOpOf(o1.kind, o1.isNegated), NumberLiteral(n[1]),
                      NumberLiteral(n[2]), o1.isNegated),
             NumberLiteral(n[3]), o2.isNegated)

LeftFirstValue(n, o1, o2) ==
    Negated(o2.isNegated,
            BinaryValue(BinaryOpOf(o2.kind, o2.isNegated),
                        Negated(o1.isNegated,
                                BinaryValue(BinaryOpOf(o1.kind, o1.isNegated),
                                            Num(n[1]), Num(n[2]))),
                        Num(n[3])))

\* The only command of the AST is the Write of one expression.
WrittenExpression == parsed.ast.children[1].body.args[1]

\* C18: a chain a op1 b op2 c of binary operators parses as (a op1 b) op2 c
\* for every two binary operators, and is computed so: what evaluate returns
\* is the value of (a op1 b) op2 c; 3+4*3 gives 21 and 4+10/2 gives 7.
C18_LeftToRight ==
    \A n \in Operands, o1 \in Operators, o2 \in Operators :
        (/\ tokenizedLines = <<ChainLine(n, o1, o2)>>
         /\ IsBinaryOperator(o1)
         /\ IsBinaryOperator(o2)
         /\ pc \in {"parsedTokens", "returned"}) =>
            /\ parsed.hasAst
            /\ parsed.errors = <<>>
            /\ WrittenExpression = LeftFirst(n, o1, o2)
            /\ (pc = "returned" /\ IsArithmetic(LeftFirst(n, o1, o2))) =>
                   /\ evaluateResult.errors = <<>>
                   /\ evaluateResult.output = mValueToString(LeftFirstValue(n, o1, o2))
                   /\ (n = <<3, 4, 3>> /\ o1 = Plain("Plus") /\ o2 = Plain("Asterisk")) =>
                          evaluateResult.output = "21"
                   /\ (n = <<4, 10, 2>> /\ o1 = Plain("Plus") /\ o2 = Plain("ForwardSlash")) =>
                          evaluateResult.output = "7"

\* C18, its case: evaluate has returned 21 for ` w 3+4*3`.
C18_TwentyOne ==
    /\ pc = "returned"
    /\ tokenizedLines = <<ChainLine(<<3, 4, 3>>, Plain("Plus"), Plain("Asterisk"))>>
    /\ parsed.hasAst
    /\ evaluateResult.output = "21"

RECURSIVE UnaryRunValue(_, _)
\* The value of the unary operators u applied to the number x, the last of
\* them first.
UnaryRunValue(u, x) ==
    IF u = <<>> THEN x
    ELSE CASE Head(u) = "SingleQuote" -> IF UnaryRunValue(Tail(u), x) = 0 THEN 1 ELSE 0
           [] Head(u) = "Plus" -> UnaryRunValue(Tail(u), x)
           [] Head(u) = "Minus" -> 0 - UnaryRunValue(Tail(u), x)

\* C19: a unary operator applies to an operand that begins with a unary
\* operator, to any depth: ` w 3+u(4-3)` parses for every run u of unary
\* operators and evaluate returns 3 plus the value of u on 1 with no
\* error, 2 for ` w 3+-(4-3)` and 4 for ` w 3+--(4-3)`.
C19_NestedUnary ==
    \A u \in UnaryRuns :
        (tokenizedLines = <<UnaryLine(u)>> /\ pc = "returned") =>
            /\ parsed.hasAst
            /\ evaluateResult.errors = <<>>
            /\ evaluateResult.output = ToString(3 + UnaryRunValue(u, 1))

\* The same for the runs of at most one unary operator.
OneUnaryParses ==
    \A u \in UnaryRuns :
        (tokenizedLines = <<UnaryLine(u)>> /\ pc = "returned" /\ Len(u) <= 1) =>
            /\ parsed.hasAst
            /\ evaluateResult.errors = <<>>
            /\ evaluateResult.output = ToString(3 + UnaryRunValue(u, 1))

\* A run of two unary operators or more does not parse.
TwoUnaryDoNotParse ==
    \A u \in UnaryRuns :
        (tokenizedLines = <<UnaryLine(u)>> /\ pc = "returned" /\ Len(u) >= 2) =>
            /\ ~parsed.hasAst
            /\ evaluateResult.errors = <<"Expected an expression">>

----------------------------------------------------------------------------
(* The runs of the lines ` name`, the name of a command alone on its line.  *)

\* `text.toUpperCase()` of one letter of the full names.
UpperCase(c) == CHOOSE u \in DOMAIN LowerCase : LowerCase[u] = c

\* The beginnings of the full names, the empty one among them.
Beginnings ==
    UNION {{SubSeq(CommandNames[i], 1, n) : n \in 0..Len(CommandNames[i])} :
              i \in 1..Len(CommandNames)}

\* The spellings of a lower-case name: each letter in either case.
Spellings(chars) ==
    {[k \in 1..Len(chars) |-> IF upper[k] THEN UpperCase(chars[k]) ELSE chars[k]] :
        upper \in [1..Len(chars) -> BOOLEAN]}

MaxExtra == 1

ExtraLetters == {"e", "x", "L"}

Extras == UNION {[1..n -> ExtraLetters] : n \in 0..MaxExtra}

\* A beginning of a full name in any spelling, then at most MaxExtra letters.
NameChoices ==
    {name \in {spelling \o extra : spelling \in UNION {Spellings(b) : b \in Beginnings},
                                   extra \in Extras} : name # <<>>}

NameLine(name) == Line(<<IdentifierToken(name)>>)

\* ` name 1`
ArgumentLine(name) == Line(<<IdentifierToken(name), Token("Space"), NumberToken(1)>>)

InitNames ==
    InitParser({<<NameLine(name)>> : name \in NameChoices}
               \cup {<<ArgumentLine(name)>> : name \in NameChoices})

SpecNames == InitNames /\ [][NextParser]_vars

\* The kinds of the bodies that parseWrite, parseQuit, ... return for a
\* command with no argument, in the order of CommandNames.
BodyKinds == <<"Write", "Quit", "DoBlock", "If", "Else", "For", "Set", "New", "Kill">>

\* The name is, lower-cased, a non-empty beginning of the full name.
IsPrefixOf(name, full) ==
    /\ Len(name) >= 1
    /\ Len(name) <= Len(full)
    /\ \A k \in 1..Len(name) : toLowerCase(name)[k] = full[k]

\* C20: the name of a command resolves to Write, Quit, Do, If, Else, For,
\* Set, New or Kill exactly when, lower-cased, it is a non-empty prefix of
\* that full name; every other name is the one parse error "Unrecognized
\* command name", with an argument after it or with none; and no name is
\* a prefix of two full names.
C20_CommandNamePrefix ==
    \A name \in NameChoices :
      /\ (tokenizedLines = <<ArgumentLine(name)>> /\ pc \in {"parsedTokens", "returned"}) =>
            ((\A i \in 1..Len(CommandNames) : ~IsPrefixOf(name, CommandNames[i])) <=>
                   /\ ~parsed.hasAst
                   /\ parsed.errors = <<"Unrecognized command name">>)
      /\ (tokenizedLines = <<NameLine(name)>> /\ pc \in {"parsedTokens", "returned"}) =>
            /\ \A i \in 1..Len(CommandNames) :
                   IsPrefixOf(name, CommandNames[i]) <=>
                       /\ parsed.hasAst
                       /\ parsed.errors = <<>>
                       /\ Len(parsed.ast.children) = 1
                       /\ parsed.ast.children[1].body.kind = BodyKinds[i]
            /\ (\A i \in 1..Len(CommandNames) : ~IsPrefixOf(name, CommandNames[i])) <=>
                   /\ ~parsed.hasAst
                   /\ parsed.errors = <<"Unrecognized command name">>
            /\ \A i, j \in 1..Len(CommandNames) :
                   (IsPrefixOf(name, CommandNames[i]) /\ IsPrefixOf(name, CommandNames[j]))
                       => i = j

\* C20, its cases: ` wRIte` has parsed to a Write and ` writeL` to the error.
C20_MixedCaseWrite ==
    /\ pc = "parsedTokens"
    /\ tokenizedLines = <<NameLine(<<"w", "R", "I", "t", "e">>)>>
    /\ parsed.hasAst
    /\ parsed.ast.children[1].body.kind = "Write"

C20_LongerNameRefused ==
    /\ pc = "returned"
    /\ tokenizedLines = <<NameLine(<<"w", "r", "i", "t", "e", "L">>)>>
    /\ evaluateResult.errors = <<"Unrecognized command name">>

----------------------------------------------------------------------------
(* The runs of the scripts of at most MaxLines lines, each the declaration  *)
(* of a tag, with its commands or none, or a line of commands.              *)

MaxLines == 3

\* `name`, `name(p)`, `name(p,a)` or the unterminated `name(`.
TagHead(name, params) ==
    CASE params = "none" -> <<IdentifierToken(name)>>
      [] params = "p" -> <<IdentifierToken(name), Token("LeftParen"),
                           IdentifierToken(<<"p">>), Token("RightParen")>>
      [] params = "pa" -> <<IdentifierToken(name), Token("LeftParen"),
                            IdentifierToken(<<"p">>), Token("Comma"),
                            IdentifierToken(<<"a">>), Token("RightParen")>>
      [] params = "open" -> <<IdentifierToken(name), Token("LeftParen")>>

\* ` w n`, from the space on.
WriteTokens(n) == <<Token("Space"), IdentifierToken(<<"w">>), Token("Space"), NumberToken(n)>>

TagNames == {<<"t">>, <<"m", "a", "i", "n">>}

TagLines ==
    {TagHead(name, params) \o commands \o <<Token("TrailingWhitespace")>> :
        name \in TagNames, params \in {"none", "p", "pa"},
        commands \in {<<>>, WriteTokens(1)}}
    \cup {TagHead(<<"t">>, "open") \o <<Token("TrailingWhitespace")>>}

CommandLines ==
    {Line(<<IdentifierToken(<<"w">>), Token("Space"), NumberToken(2)>>),
     Line(<<IdentifierToken(<<"q">>)>>)}

Scripts == UNION {[1..n -> TagLines \cup CommandLines] : n \in 0..MaxLines}

InitTags == InitParser(Scripts)

SpecTags == InitTags /\ [][NextParser]_vars

\* What the lines of the script say, read off the tokens.
IsDeclaration(line) == line[1].kind = "Identifier"

DeclaredName(line) == Text(line[1].text)

DeclaresParams(line) == Len(line) >= 2 /\ line[2].kind = "LeftParen"

RECURSIVE IdentifiersOf(_, _)
\* The texts of the identifiers of the line from its token i up to the
\* closing parenthesis.
IdentifiersOf(line, i) ==
    IF i > Len(line) \/ line[i].kind = "RightParen" THEN <<>>
    ELSE IF line[i].kind = "Identifier" THEN <<Text(line[i].text)>> \o IdentifiersOf(line, i + 1)
    ELSE IdentifiersOf(line, i + 1)

DeclaredParams(line) == IF DeclaresParams(line) THEN IdentifiersOf(line, 3) ELSE <<>>

RECURSIVE CommandsOf(_, _)
\* The commands of the line from its token i on: a Write for each number
\* and a Quit for each `q`.
CommandsOf(line, i) ==
    IF i > Len(line) THEN <<>>
    ELSE IF line[i].kind = "Number"
    THEN <<Cmd(WriteBody(<<NumberLiteral(line[i].value)>>))>> \o CommandsOf(line, i + 1)
    ELSE IF line[i].kind = "Identifier" /\ Text(line[i].text) = "q"
    THEN <<Cmd(QuitBody(NoExpr))>> \o CommandsOf(line, i + 1)
    ELSE CommandsOf(line, i + 1)

RECURSIVE CommandsBefore(_, _)
\* The commands of the lines before line n.
CommandsBefore(lines, n) ==
    IF n <= 1 THEN <<>> ELSE CommandsBefore(lines, n - 1) \o CommandsOf(lines[n - 1], 1)

\* Line n is the first declaration of its name.
IsFirstDeclaration(lines, n) ==
    /\ IsDeclaration(lines[n])
    /\ \A k \in 1..(n - 1) :
           IsDeclaration(lines[k]) => DeclaredName(lines[k]) # DeclaredName(lines[n])

\* C21: after parsing, each tag name maps to the index (the number of
\* commands parsed before its declaration) and the parameter list of its
\* first declaration; a later declaration of the name changes neither, and
\* the commands after it are still appended to the flat command list.
C21_FirstDeclarationWins ==
    (pc \in {"parsedTokens", "returned"} /\ parsed.hasAst) =>
        /\ parsed.ast.children = CommandsBefore(tokenizedLines, Len(tokenizedLines) + 1)
        /\ \A n \in 1..Len(tokenizedLines) :
               IsFirstDeclaration(tokenizedLines, n) =>
                   \E i \in 1..Len(parsed.ast.tags) :
                       /\ parsed.ast.tags[i].name = DeclaredName(tokenizedLines[n])
                       /\ parsed.ast.tags[i].index = Len(CommandsBefore(tokenizedLines, n))
                       /\ parsed.ast.tags[i].hasParams = DeclaresParams(tokenizedLines[n])
                       /\ parsed.ast.tags[i].params = DeclaredParams(tokenizedLines[n])
        /\ \A i, j \in 1..Len(parsed.ast.tags) :
               parsed.ast.tags[i].name = parsed.ast.tags[j].name => i = j
        /\ \A i \in 1..Len(parsed.ast.tags) :
               \E n \in 1..Len(tokenizedLines) :
                   /\ IsDeclaration(tokenizedLines[n])
                   /\ DeclaredName(tokenizedLines[n]) = parsed.ast.tags[i].name

\* C21, its case: `t(p) w 1`, ` w 2`, `t(p,a) w 1` has parsed: t is at
\* index 0 with the one parameter p, and there are three commands.
C21_DeclaredTwice ==
    /\ pc = "parsedTokens"
    /\ tokenizedLines
         = <<TagHead(<<"t">>, "p") \o WriteTokens(1) \o <<Token("TrailingWhitespace")>>,
             Line(<<IdentifierToken(<<"w">>), Token("Space"), NumberToken(2)>>),
             TagHead(<<"t">>, "pa") \o WriteTokens(1) \o <<Token("TrailingWhitespace")>>>>
    /\ parsed.hasAst
    /\ Len(parsed.ast.tags) = 1
    /\ parsed.ast.tags[1].index = 0
    /\ parsed.ast.tags[1].params = <<"p">>
    /\ Len(parsed.ast.children) = 3

----------------------------------------------------------------------------
(* More properties of the runs of a script.                                 *)

\* The step runs a command with no postcondition, of the given kind, which
\* returns Continue.
Runs(kind) ==
    /\ pc = "running"
    /\ Frame.kind # "resume"
    /\ lastResult' = "Continue"
    /\ lastCmd'.condition.kind = "None"
    /\ lastCmd'.body.kind = kind

IsFormatter(arg) == arg.kind \in {"HashFormatter", "ExclamationPointFormatter"}

\* The place of the last `#` among the arguments, 0 when there is none.
LastHash(args) ==
    IF \E i \in 1..Len(args) : args[i].kind = "HashFormatter"
    THEN CHOOSE i \in 1..Len(args) :
             /\ args[i].kind = "HashFormatter"
             /\ \A j \in (i + 1)..Len(args) : args[j].kind # "HashFormatter"
    ELSE 0

\* The text that an argument of Write stands for: a newline for `!`, the
\* text of its value for a literal.
FragmentOf(arg) ==
    IF arg.kind = "ExclamationPointFormatter" THEN "\n"
    ELSE mValueToString(LiteralValue(arg))

\* The fragments written so far, after a Write of `args`.
WrittenAfter(written, args) ==
    (IF LastHash(args) = 0 THEN written ELSE <<>>)
        \o [i \in 1..(Len(args) - LastHash(args)) |-> FragmentOf(args[LastHash(args) + i])]

\* C22: the output that interpret returns is the concatenation, in the
\* order of execution, of the fragments written after the last `#` that was
\* executed, each `!` one newline; a `#` discards all that was written
\* before it, by earlier commands and by callers too.  Step by step: a Write
\* of literals and formatters leaves the output that WrittenAfter tells, a
\* step that is not of a Write leaves the output as it is, and interpret
\* returns the fragments joined.
C22_OutputSinceLastHash ==
    [][/\ (/\ Runs("Write")
           /\ \A i \in 1..Len(lastCmd'.body.args) :
                  IsFormatter(lastCmd'.body.args[i]) \/ IsLiteral(lastCmd'.body.args[i]))
              => output' = WrittenAfter(output, lastCmd'.body.args)
       /\ (/\ pc = "running"
           /\ Frame.kind # "resume"
           /\ (lastResult' = "End" \/ lastCmd'.body.kind # "Write"))
              => output' = output
       /\ (pc = "done" /\ pc' = "returned")
              => /\ evaluateResult'.output = Join(output)
                 /\ evaluateResult'.errors = errors]_vars

\* C22, its case: in the call of a tag, `w "h",#,"z"` ran and the output is
\* the one fragment z.
C22_HashInACall ==
    /\ pc = "running"
    /\ Frame.kind = "tag"
    /\ lastCmd = Cmd(WriteBody(<<StringLiteral("h"), HashFormatter, StringLiteral("z")>>))
    /\ lastResult = "Continue"
    /\ output = <<"z">>

\* The innermost scope that binds the name, 0 when none does.
InnermostBinding(environment, name) ==
    IF \E i \in 1..Len(environment) :
           environment[i].t = "env" /\ environment[i].m[name].t # "u"
    THEN CHOOSE i \in 1..Len(environment) :
             /\ environment[i].t = "env" /\ environment[i].m[name].t # "u"
             /\ \A j \in (i + 1)..Len(environment) :
                    ~(environment[j].t = "env" /\ environment[j].m[name].t # "u")
    ELSE 0

\* The scopes without the innermost binding of the name.
WithoutInnermost(environment, name) ==
    IF InnermostBinding(environment, name) = 0 THEN environment
    ELSE [environment EXCEPT ![InnermostBinding(environment, name)] =
              MapSet(@, name, Undefined)]

\* What a binding holds: the value of a scalar or of an array, and for a
\* reference what the variable it names holds.
Held(environment, binding) ==
    CASE binding.t = "u" -> Str("")
      [] binding.t = "r" ->
            mValueToScalar(IF environment[binding.environmentIndex + 1].m[binding.name].t = "u"
                           THEN Str("")
                           ELSE environment[binding.environmentIndex + 1].m[binding.name])
      [] OTHER -> mValueToScalar(binding)

\* The value of the innermost binding of the name, the empty string when
\* there is none.
BoundValue(environment, name) ==
    IF InnermostBinding(environment, name) = 0 THEN Str("")
    ELSE Held(environment, environment[InnermostBinding(environment, name)].m[name])

\* C23: Kill of a name without subscripts removes the innermost binding of
\* the name and nothing else; a read of the name then gives the value of
\* the next outer binding, the empty string when there is none; and so a
\* second Kill removes that outer binding.
C23_KillRemovesInnermost ==
    [][\A n \in Names \ {"$TEST"} :
           (/\ pc = "running"
            /\ Frame.kind # "resume"
            /\ lastResult' # "End"
            /\ lastCmd' = Cmd(KillBody(<<Var(n)>>)))
              => /\ lastResult' = "Continue"
                 /\ pc' = "running"
                 /\ environmentStack' = WithoutInnermost(environmentStack, n)
                 /\ ReadIn(Var(n), environmentStack')
                        = BoundValue(WithoutInnermost(environmentStack, n), n)]_vars

\* The step runs Kill of the one name n.
KillsName(n) ==
    /\ pc = "running"
    /\ Frame.kind # "resume"
    /\ lastResult' # "End"
    /\ lastCmd' = Cmd(KillBody(<<Var(n)>>))

\* No scope is an empty slot.
NoHoles(environment) == \A i \in 1..Len(environment) : environment[i].t = "env"

\* Where no scope is an empty slot, Kill of a name removes the innermost
\* binding of the name and nothing else.
KillRemovesInnermostBinding ==
    [][\A n \in Names \ {"$TEST"} :
           (KillsName(n) /\ NoHoles(environmentStack))
              => /\ lastResult' = "Continue"
                 /\ pc' = "running"
                 /\ environmentStack' = WithoutInnermost(environmentStack, n)]_vars

\* Where no scope is an empty slot and the next outer binding holds neither
\* 0 nor the empty string, the read after the Kill gives what it holds.
KillThenReadOuter ==
    [][\A n \in Names \ {"$TEST"} :
           (/\ KillsName(n)
            /\ NoHoles(environmentStack)
            /\ ~IsFalsy(BoundValue(WithoutInnermost(environmentStack, n), n)))
              => ReadIn(Var(n), environmentStack')
                     = BoundValue(WithoutInnermost(environmentStack, n), n)]_vars

\* The innermost handler suspended in the frames that is not the
\* interpretChildCommands of an If or an Else.
Enclosing(suspended) ==
    CHOOSE k \in 1..Len(suspended) :
        /\ suspended[k].kind # "children"
        /\ \A j \in (k + 1)..Len(suspended) : suspended[j].kind = "children"

\* C24: Quit ends only the innermost enclosing Do block, For loop or tag
\* call, and the run resumes with the command that follows that construct;
\* If and Else pass the Quit of their children on.  Step by step: when a
\* command returns Quit, the handlers left are those up to the innermost
\* one that is not of an If or an Else, which is a Do block, a For or a
\* call, and the run goes on in the handler under it; a Quit with none of
\* them around it ends interpretTopLevel.
C24_QuitEndsInnermost ==
    [][(pc = "running" /\ Frame.kind # "resume" /\ lastResult' = "Quit")
          => IF frames[Enclosing(frames)].kind = "main" THEN pc' = "done"
             ELSE /\ frames[Enclosing(frames)].kind \in {"block", "for", "tag"}
                  /\ pc' = "running"
                  /\ frames' = SubSeq(frames, 1, Enclosing(frames) - 1)]_vars

\* C24, its case: `f b=7:1:8 i 1 q` has left its loop at the Quit of the
\* first turn, and the run is back in main.
C24_QuitThroughIf ==
    /\ pc = "running"
    /\ InMain
    /\ lastResult = "Quit"
    /\ lastCmd = Cmd(QuitBody(NoExpr))
    /\ Read(Var("b")) = Num(7)

\* The length of the environment stack when the handler of the frame began.
StartLength(frame) ==
    IF frame.kind = "tag" THEN frame.callEnvironmentStackLength
    ELSE frame.startEnvironmentStackLength

\* The step ends the handler of the frame k, and those within it.
Ends(k) == Len(frames') = k - 1 /\ k <= Len(frames)

\* C25: when a tag call or a Do block ends without Halt and no Kill without
\* arguments ran inside it, the environment stack holds the scopes it held
\* when the call or block began: the scopes pushed inside it by parameter
\* binding and by New are popped, and none below was removed.  While such a
\* call or block runs the stack is never shorter than it was at its
\* beginning, and when it ends the stack has the length it had then.
C25_ScopesRestored ==
    [][/\ \A k \in 1..Len(frames) :
              (/\ pc = "running"
               /\ pc' = "running"
               /\ Ends(k)
               /\ frames[k].kind \in {"tag", "block"}
               /\ lastResult' # "Halt"
               /\ k > killedUnder)
                 => /\ Len(environmentStack') = StartLength(frames[k])
                    /\ frames[k].kind = "tag" =>
                           \A i \in 1..StartLength(frames[k]) :
                               environmentStack'[i].t = frames[k].envAtCall[i].t
       /\ \A k \in 1..Len(frames') :
              (pc' = "running" /\ frames'[k].kind \in {"tag", "block"} /\ k > killedUnder')
                 => Len(environmentStack') >= StartLength(frames'[k])]_vars

\* C25, its case: the call of deep, which binds a parameter, pushes a scope
\* with New and calls pass, has returned to main, whose scope is the one
\* left.
C25_DeepReturned ==
    /\ pc = "running"
    /\ InMain
    /\ returned # NoReturn
    /\ returned[1].node.name = "deep"
    /\ killedUnder = 0
    /\ Len(environmentStack) = 1
----------------------------------------------------------------------------
(* The runs of the scripts of Spec together with the runs of the scripts    *)
(* given as tokens: the loop of interpretTopLevel from both sides, from the *)
(* index it is given by interpret and from the index it is given by a call. *)

InitTopLevel == Init \/ InitTags

NextTopLevel == Next \/ NextParser

SpecTopLevel == InitTopLevel /\ [][NextTopLevel]_vars

\* Line n declares the tag main and no line before it does.
IsMainLine(lines, n) == IsFirstDeclaration(lines, n) /\ DeclaredName(lines[n]) = "main"

\* The number of commands before the first command of main, 0 without main.
StartOf(lines) ==
    IF \E n \in 1..Len(lines) : IsMainLine(lines, n)
    THEN Len(CommandsBefore(lines, CHOOSE n \in 1..Len(lines) : IsMainLine(lines, n)))
    ELSE 0

RECURSIVE WrittenFrom(_, _)
\* What the commands write from the i-th on, in list order, up to the first
\* Quit or the end of the list.
WrittenFrom(commands, i) ==
    IF i > Len(commands) THEN <<>>
    ELSE IF commands[i].body.kind = "Quit" THEN <<>>
    ELSE <<mValueToString(Num(commands[i].body.args[1].num))>> \o WrittenFrom(commands, i + 1)

AllCommands(lines) == CommandsBefore(lines, Len(lines) + 1)

\* The loop of interpretTopLevel is what the top frame is suspended in.
AtTopLevel == pc = "running" /\ Frame.kind \in {"main", "tag"} /\ ~InMain

\* The step ends the loop of the top frame.
LoopEnds == pc' # "running" \/ Len(frames') < Len(frames)

\* C26: interpret starts at the first command of tag main, at command 0
\* when there is no tag main, and a call of a tag starts at the index of the
\* tag; from there the top-level commands run in list order, across the
\* declarations of the tags that follow, until one returns Quit or Halt or
\* the list ends.
C26_TopLevelOrder ==
    /\ []((pc = "returned" /\ parsed.hasAst /\ Len(parsed.errors) = 0)
            => evaluateResult
                 = EvaluateResult(Join(WrittenFrom(AllCommands(tokenizedLines),
                                                   StartOf(tokenizedLines) + 1)), <<>>))
    /\ [][/\ (pc = "running" /\ pc' = "running" /\ Len(frames') > Len(frames)
              /\ frames'[Len(frames')].kind = "tag")
                => frames'[Len(frames')].i = AstTags[frames'[Len(frames')].node.name].index
          /\ (AtTopLevel /\ Frame.i < Len(AstChildren) /\ pc' \in {"running", "done"})
                => /\ lastCmd' = AstChildren[Frame.i + 1]
                   /\ lastResult' \in {"Continue", "Entered", "Quit", "Halt"}
                   /\ lastResult' \in {"Continue", "Entered"}
                          => /\ Len(frames') >= Len(frames)
                             /\ frames'[Len(frames)] = [Frame EXCEPT !.i = @ + 1]
                   /\ lastResult' \in {"Quit", "Halt"} => LoopEnds
          /\ (AtTopLevel /\ Frame.i >= Len(AstChildren))
                => lastResult' = "End" /\ LoopEnds]_vars

\* C26, its case: ` w 2`, `main w 1`, `t w 1` has run and written 11: the
\* run began at the command of main and went on into the command of t.
C26_MainThenFollowingTag ==
    /\ pc = "returned"
    /\ tokenizedLines
         = <<Line(<<IdentifierToken(<<"w">>), Token("Space"), NumberToken(2)>>),
             TagHead(<<"m", "a", "i", "n">>, "none") \o WriteTokens(1)
                 \o <<Token("TrailingWhitespace")>>,
             TagHead(<<"t">>, "none") \o WriteTokens(1) \o <<Token("TrailingWhitespace")>>>>
    /\ evaluateResult.output = "11"
----------------------------------------------------------------------------
(* What a Set leaves alone.                                                 *)

\* The paths that are read before and after a Set.
OtherPaths == {
    Var("a"),
    Var("b"),
    Variable("a", <<Lit(1)>>),
    Variable("a", <<Lit(2)>>),
    Variable("a", <<Lit(10)>>),
    Variable("a", <<Lit(1), StringLiteral("b")>>)
}

\* C27: a Set to path p changes only what p reads: every other path, a
\* prefix of p, a sibling of p or a path that extends p, reads after the
\* Set what it read before it. Stated of a Set of main with one argument,
\* a literal value and literal subscripts.
C27_SetChangesOnlyItsPath ==
    [][(/\ pc = "running" /\ pc' = "running"
        /\ InMain
        /\ steps' = steps + 1
        /\ lastResult' = "Continue"
        /\ lastCmd'.condition.kind = "None"
        /\ lastCmd'.body.kind = "Set"
        /\ Len(lastCmd'.body.args) = 1
        /\ IsLiteral(lastCmd'.body.args[1].value)
        /\ \A i \in 1..Len(lastCmd'.body.args[1].target.subscripts) :
               IsLiteral(lastCmd'.body.args[1].target.subscripts[i]))
          => \A path \in OtherPaths \ {lastCmd'.body.args[1].target} :
                 ReadIn(path, environmentStack') = ReadIn(path, environmentStack)]_vars
----------------------------------------------------------------------------
(* The arguments of a call.                                                 *)

\* An argument whose evaluation calls nothing.
IsSimpleArgument(arg) ==
    \/ IsLiteral(arg)
    \/ arg.kind = "Reference"
    \/ arg.kind = "Variable" /\ Len(arg.subscripts) = 0

\* What the argument is in the caller's environment.
InCaller(arg) ==
    IF arg.kind = "Reference" THEN getVariableReference(arg.name, State)
    ELSE Top(interpretExpression(arg, State).st)

\* C28: every argument of a call is evaluated, or resolved to a variable,
\* in the caller's environment as it was before the call began: a parameter
\* bound for this call is not visible to the later arguments of the call.
C28_ArgumentsSeeCaller ==
    [][(/\ pc = "running" /\ pc' = "running"
        /\ lastResult' = "Entered"
        /\ lastCmd'.body.kind = "Call"
        /\ lastCmd'.condition.kind = "None"
        /\ Len(frames') = Len(frames) + 1
        /\ frames'[Len(frames')].kind = "tag"
        /\ frames'[Len(frames')].node = lastCmd'.body
        /\ \A i \in 1..Len(lastCmd'.body.args) : IsSimpleArgument(lastCmd'.body.args[i]))
          => \A i \in 1..Min(Len(AstTags[lastCmd'.body.name].params), Len(lastCmd'.body.args)) :
                 environmentStack'[Len(environmentStack')].m[AstTags[lastCmd'.body.name].params[i]]
                     = InCaller(lastCmd'.body.args[i])]_vars
----------------------------------------------------------------------------
(* The arguments of a Kill.                                                 *)

\* The step is a Kill of main with arguments, literal subscripts and one
\* scope on the stack, and it returned Continue.
KillOfMainRuns ==
    /\ pc = "running" /\ pc' = "running"
    /\ InMain
    /\ steps' = steps + 1
    /\ Len(environmentStack) = 1
    /\ lastResult' = "Continue"
    /\ lastCmd'.condition.kind = "None"
    /\ lastCmd'.body.kind = "Kill"
    /\ Len(lastCmd'.body.args) >= 1
    /\ \A i \in 1..Len(lastCmd'.body.args) :
           \A j \in 1..Len(lastCmd'.body.args[i].subscripts) :
               IsLiteral(lastCmd'.body.args[i].subscripts[j])

\* After the step the argument is gone: a name has no binding and a
\* subscript path reads the empty string.
Removed(arg) ==
    IF Len(arg.subscripts) = 0
    THEN environmentStack'[1].m[arg.name] = [t |-> "u"]
    ELSE ReadIn(arg, environmentStack') = Str("")

\* C29: a Kill with several arguments removes every variable and every
\* subscript path of its list, whether or not an earlier argument of the
\* same Kill named an undefined variable or a scalar.
C29_KillProcessesEveryArgument ==
    [][KillOfMainRuns =>
           \A i \in 1..Len(lastCmd'.body.args) : Removed(lastCmd'.body.args[i])]_vars
----------------------------------------------------------------------------
(* The page of src/ui/index.ts: the clicks on the run and clear buttons and *)
(* the animation frame callbacks, one handler at a time in any order.       *)

\* The number of times evaluate is called.
MaxRuns == 3

\* How a call of evaluate goes: the script has parse errors, main reports
\* errors, main halts, there is no tag frame, there is one.
EvaluateOutcomes == {"parseErrors", "mainErrors", "mainHalted", "noFrameTag", "frameTag"}

\* How interpretTag of the tag frame goes.
FrameOutcomes == {"ok", "errors", "halted"}

UiEvent(kind, r, invoked) == [kind |-> kind, run |-> r, invoked |-> invoked]

\* What the text area shows after `outputTextArea.value = output`.
Shown(runs) == {<<r, "output">> : r \in runs}

\* setIsRunning(value)
setIsRunning(value) ==
    /\ isRunning' = value
    /\ runButtonText' = IF value THEN "End" ELSE "Run"

\* evaluate() of run r, after clearOutput and clearCanvas.
evaluate(r, outcome) ==
    /\ run' = r
    /\ uiEvent' = UiEvent("evaluate", r, FALSE)
    /\ pageOutput' = IF outcome \in {"noFrameTag", "frameTag"} THEN {r} ELSE {}
    /\ outputTextArea' = IF outcome \in {"parseErrors", "mainErrors"} THEN {<<r, "errors">>}
                         ELSE Shown(pageOutput')
    /\ IF outcome = "frameTag"
       THEN setIsRunning(TRUE) /\ scheduled' = scheduled \cup {r}
       ELSE UNCHANGED <<isRunning, runButtonText, scheduled>>

\* The click listener of runButton.
RunButtonClick ==
    /\ pc = "ui"
    /\ IF ~isRunning
       THEN /\ run < MaxRuns
            /\ \E outcome \in EvaluateOutcomes : evaluate(run + 1, outcome)
       ELSE /\ setIsRunning(FALSE)
            /\ uiEvent' = UiEvent("end", run, FALSE)
            /\ UNCHANGED <<run, scheduled, pageOutput, outputTextArea>>
    /\ UNCHANGED <<interpreterVars, pc, evaluateVars, arrayVars, parserVars>>

\* The click listener of clearButton.
ClearButtonClick ==
    /\ pc = "ui"
    /\ setIsRunning(FALSE)
    /\ pageOutput' = {}
    /\ outputTextArea' = {}
    /\ uiEvent' = UiEvent("clear", run, FALSE)
    /\ UNCHANGED <<run, scheduled>>
    /\ UNCHANGED <<interpreterVars, pc, evaluateVars, arrayVars, parserVars>>

\* onFrame of run r past `if (!isRunning) return`: interpretTag of the tag
\* frame and what follows it.
FrameInvoked(r, outcome) ==
    /\ uiEvent' = UiEvent("onFrame", r, TRUE)
    /\ IF outcome = "ok"
       THEN /\ pageOutput' = pageOutput \cup {r}
            /\ outputTextArea' = Shown(pageOutput')
            /\ scheduled' = scheduled
            /\ UNCHANGED isRunning
       ELSE /\ isRunning' = FALSE
            /\ outputTextArea' = IF outcome = "errors"
                                 THEN outputTextArea \cup {<<r, "errors">>}
                                 ELSE outputTextArea
            /\ scheduled' = scheduled \ {r}
            /\ UNCHANGED pageOutput
    /\ UNCHANGED runButtonText

\* The browser calls the onFrame that run r requested.
OnFrame ==
    /\ pc = "ui"
    /\ \E r \in scheduled :
           IF ~isRunning
           THEN /\ scheduled' = scheduled \ {r}
                /\ uiEvent' = UiEvent("onFrame", r, FALSE)
                /\ UNCHANGED <<isRunning, runButtonText, pageOutput, outputTextArea>>
           ELSE \E outcome \in FrameOutcomes : FrameInvoked(r, outcome)
    /\ UNCHANGED <<run, interpreterVars, pc, evaluateVars, arrayVars, parserVars>>

InitUI ==
    /\ pc = "ui"
    /\ evaluator = "src/language/evaluate.ts"
    /\ Fresh
    /\ IdleUnits

NextUI == RunButtonClick \/ ClearButtonClick \/ OnFrame

SpecUI == InitUI /\ [][NextUI]_vars

\* C30: at most one chain of animation frame callbacks invokes the tag frame
\* at any time: once the user has ended or cleared a run and started a new
\* one, no callback that an earlier run scheduled invokes the tag frame
\* again, in whatever order the clicks and the callbacks come.
C30_OneFrameChain ==
    (pc = "ui" /\ uiEvent.kind = "onFrame" /\ uiEvent.invoked) => uiEvent.run = run
====
